---- MODULE Spec2Model ----
(***************************************************************************)
(* A model of the Vuetify documentation chunker (chunker.py) and of the    *)
(* query analyzer (enhanced-query-processor.py).                           *)
(*                                                                         *)
(* A Python str is a sequence of one-character strings.  Regular           *)
(* expressions are modelled by what the re engine computes for them:       *)
(* leftmost match, greedy and lazy quantifiers with their backtracking     *)
(* order, re.split with and without a capturing group.                     *)
(***************************************************************************)
EXTENDS Integers, Sequences, FiniteSets, TLC

VARIABLES
    chunker,    \* the VuetifyDocChunker instance: its fields
    op,         \* the method that ran last ("init" after construction)
    arg,        \* the arguments of that call
    ret,        \* what that call returned
    emitted,    \* every chunk chunk_documentation returned so far, in order
    rag,        \* the VuetifyRAG instance and the services built on it
    locals      \* local variables of the call that ran last, at its return

vars == <<chunker, op, arg, ret, emitted, rag, locals>>

----------------------------------------------------------------------------
(* Characters and the str methods the code uses *)

NL == "\n"
\* the backtick character (a string literal cannot hold it)
BT == "BACKTICK"

UpperSeq == <<"A","B","C","D","E","F","G","H","I","J","K","L","M",
              "N","O","P","Q","R","S","T","U","V","W","X","Y","Z">>
LowerSeq == <<"a","b","c","d","e","f","g","h","i","j","k","l","m",
              "n","o","p","q","r","s","t","u","v","w","x","y","z">>
DigitSeq == <<"0","1","2","3","4","5","6","7","8","9">>

UpperSet == {UpperSeq[i] : i \in 1..26}
LowerSet == {LowerSeq[i] : i \in 1..26}
DigitSet == {DigitSeq[i] : i \in 1..10}

LowerMap == [c \in UpperSet |-> LowerSeq[CHOOSE i \in 1..26 : UpperSeq[i] = c]]

IsUpper(c) == c \in UpperSet
IsAlpha(c) == c \in UpperSet \cup LowerSet
\* \w of re: letters, digits, underscore
IsWord(c) == c \in UpperSet \cup LowerSet \cup DigitSet \cup {"_"}
\* \s of re and the characters str.strip() removes
IsSpace(c) == c \in {" ", NL, "\t"}

LowerChar(c) == IF c \in UpperSet THEN LowerMap[c] ELSE c
\* str.lower()
lower(s) == [i \in 1..Len(s) |-> LowerChar(s[i])]

\* s[i:j] with 1-based inclusive bounds; empty when j < i
Slice(s, i, j) == IF j < i THEN <<>> ELSE SubSeq(s, i, j)

\* s[i-1:].startswith(p), i 1-based
StartsAt(s, p, i) ==
    /\ i >= 1
    /\ i + Len(p) - 1 <= Len(s)
    /\ \A k \in 1..Len(p) : s[i + k - 1] = p[k]

\* str.startswith
startswith(s, p) == StartsAt(s, p, 1)

\* p in s
Contains(s, p) == \E i \in 1..(Len(s) - Len(p) + 1) : StartsAt(s, p, i)

\* the first index >= i whose character is not white space (Len(s)+1 if none)
RECURSIVE SkipSpace(_, _)
SkipSpace(s, i) ==
    IF i <= Len(s) /\ IsSpace(s[i]) THEN SkipSpace(s, i + 1) ELSE i

\* the last index <= j whose character is not white space (0 if none)
RECURSIVE SkipSpaceBack(_, _)
SkipSpaceBack(s, j) ==
    IF j >= 1 /\ IsSpace(s[j]) THEN SkipSpaceBack(s, j - 1) ELSE j

\* str.strip()
strip(s) == Slice(s, SkipSpace(s, 1), SkipSpaceBack(s, Len(s)))

\* str.replace(space, hyphen)
replace_space_hyphen(s) == [i \in 1..Len(s) |-> IF s[i] = " " THEN "-" ELSE s[i]]

\* sep.join(list)
RECURSIVE join(_, _)
join(sep, list) ==
    IF list = <<>> THEN <<>>
    ELSE IF Len(list) = 1 THEN list[1]
    ELSE list[1] \o sep \o join(sep, Tail(list))

\* str.split(sep) for a one-character separator: the pieces between separators
SplitOn(s, sep, i, from) ==
    LET P == {p \in i..Len(s) : s[p] = sep}
        n == Cardinality(P)
        Nth(k) == CHOOSE p \in P : Cardinality({q \in P : q < p}) = k - 1
    IN  [k \in 1..(n + 1) |->
            Slice(s, IF k = 1 THEN from ELSE Nth(k - 1) + 1,
                     IF k = n + 1 THEN Len(s) ELSE Nth(k) - 1)]

split_lines(s) == SplitOn(s, NL, 1, 1)

\* len(str.split()): the number of maximal runs of non-white-space characters
word_count_of(s) ==
    Cardinality({i \in 1..Len(s) :
        /\ ~IsSpace(s[i])
        /\ (i = 1 \/ IsSpace(s[i - 1]))})

\* Optional values: None and a present value
None == <<>>
Some(x) == <<x>>

----------------------------------------------------------------------------
(* The re module: matches are records, positions are 1-based, end is the  *)
(* index after the last matched character, gs..ge is group 1.             *)

NoMatch == [start |-> 0, end |-> 0, gs |-> 0, ge |-> 0]

\* ^ under re.MULTILINE
AtLineStart(s, p) == p = 1 \/ (p > 1 /\ p - 1 <= Len(s) /\ s[p - 1] = NL)

\* the largest index in lo..hi holding a newline, 0 if there is none
RECURSIVE LastNewline(_, _, _)
LastNewline(s, lo, hi) ==
    IF hi < lo THEN 0
    ELSE IF s[hi] = NL THEN hi
    ELSE LastNewline(s, lo, hi - 1)

\* (?:\s*\n|$) tried at r: the index after the match, 0 if neither
\* alternative matches.  Greedy \s* backs off to the last newline of the run;
\* $ matches at the end of the string (before a newline the first
\* alternative has already matched).
TailEnd(s, r) ==
    LET e == SkipSpace(s, r)
        k == LastNewline(s, r, e - 1)
    IN  IF k # 0 THEN k + 1
        ELSE IF r = Len(s) + 1 THEN r
        ELSE 0

\* the leftmost match at or after pos, NoMatch if there is none
Search(MatchAt(_, _), s, pos) ==
    LET P == {p \in pos..(Len(s) + 1) : MatchAt(s, p) # NoMatch}
    IN  IF P = {} THEN NoMatch
        ELSE MatchAt(s, CHOOSE p \in P : \A q \in P : p <= q)

\* re.finditer: the non-overlapping matches, left to right (no pattern of
\* this program matches the empty string)
RECURSIVE FindAll(_, _, _)
FindAll(MatchAt(_, _), s, pos) ==
    LET m == Search(MatchAt, s, pos)
    IN  IF m = NoMatch THEN <<>>
        ELSE <<m>> \o FindAll(MatchAt, s, m.end)

\* re.split for a pattern with one capturing group:
\* [text, group, text, group, ..., text]
RECURSIVE SplitGroup(_, _, _)
SplitGroup(s, ms, from) ==
    IF ms = <<>> THEN << Slice(s, from, Len(s)) >>
    ELSE << Slice(s, from, ms[1].start - 1), Slice(s, ms[1].gs, ms[1].ge) >>
         \o SplitGroup(s, Tail(ms), ms[1].end)

\* re.split for a pattern without a group: [text, text, ..., text]
RECURSIVE SplitPlain(_, _, _)
SplitPlain(s, ms, from) ==
    IF ms = <<>> THEN << Slice(s, from, Len(s)) >>
    ELSE << Slice(s, from, ms[1].start - 1) >>
         \o SplitPlain(s, Tail(ms), ms[1].end)

----------------------------------------------------------------------------
(* chunker.py: _extract_component_sections *)

\* [a-zA-Z\s\-]
IsTitleChar(c) == IsAlpha(c) \/ IsSpace(c) \/ c = "-"

\* the lazy [a-zA-Z\s\-]+? after the capital at u: the least n >= 1 whose
\* n characters are in the class and after which (?:\s*\n|$) matches; 0 if none
RECURSIVE LazyTitle(_, _, _)
LazyTitle(s, u, n) ==
    IF u + n > Len(s) THEN 0
    ELSE IF ~IsTitleChar(s[u + n]) THEN 0
    ELSE IF TailEnd(s, u + n + 1) # 0 THEN n
    ELSE LazyTitle(s, u, n + 1)

\* ^#{1,2}\s+([A-Z][a-zA-Z\s\-]+?)(?:\s*\n|$) at q, reported as starting at p
HeadingAt(s, p, q) ==
    IF ~(AtLineStart(s, q) /\ q <= Len(s) /\ s[q] = "#") THEN NoMatch
    ELSE
    LET h == IF q + 1 <= Len(s) /\ s[q + 1] = "#" THEN 2 ELSE 1
    IN  IF ~(q + h <= Len(s) /\ IsSpace(s[q + h])) THEN NoMatch
        ELSE
        LET u == SkipSpace(s, q + h)
        IN  IF ~(u <= Len(s) /\ IsUpper(s[u])) THEN NoMatch
            ELSE
            LET n == LazyTitle(s, u, 1)
            IN  IF n = 0 THEN NoMatch
                ELSE [start |-> p, end |-> TailEnd(s, u + n + 1),
                      gs |-> u, ge |-> u + n]

\* component_pattern at p: the optional rule line ^---\s*\n, then the heading
ComponentMatchAt(s, p) ==
    IF AtLineStart(s, p) /\ StartsAt(s, <<"-", "-", "-">>, p)
    THEN LET q == SkipSpace(s, p + 3)
         IN  IF q > p + 3 /\ s[q - 1] = NL THEN HeadingAt(s, p, q) ELSE NoMatch
    ELSE HeadingAt(s, p, p)

ComponentMatches(content) == FindAll(ComponentMatchAt, content, 1)

\* the component name of a heading (lines 82-85)
component_name_of(part) ==
    LET name == strip(part)
    IN  IF ~startswith(lower(name), <<"v", "-">>)
        THEN <<"v", "-">> \o replace_space_hyphen(lower(name))
        ELSE name

\* the loop of lines 73-96 from parts[k] on (k is the Python index plus 1);
\* current is None or Some(section)
RECURSIVE SectionsLoop(_, _, _, _)
SectionsLoop(parts, k, current, sections) ==
    IF k > Len(parts)
    THEN IF current # None THEN Append(sections, current[1]) ELSE sections
    ELSE IF k = 1 THEN SectionsLoop(parts, k + 1, current, sections)
    ELSE IF (k - 1) % 2 = 1
    THEN SectionsLoop(parts, k + 1,
            Some([component |-> component_name_of(parts[k]),
                  title |-> strip(parts[k]),
                  content |-> <<>>,
                  raw_content |-> <<>>]),
            IF current # None THEN Append(sections, current[1]) ELSE sections)
    ELSE SectionsLoop(parts, k + 1,
            IF current # None
            THEN Some([current[1] EXCEPT !.content = parts[k],
                                         !.raw_content = parts[k]])
            ELSE current,
            sections)

\* extract_component_sections without lines 98-99: the section that is open
\* when the loop ends is not appended
extract_component_sections_last_dropped(content) ==
    LET sections == SectionsLoop(SplitGroup(content, ComponentMatches(content), 1),
                                 1, None, <<>>)
    IN  Slice(sections, 1, Len(sections) - 1)

extract_component_sections(content) ==
    SectionsLoop(SplitGroup(content, ComponentMatches(content), 1), 1, None, <<>>)

----------------------------------------------------------------------------
(* chunker.py: _extract_subsections *)

\* the number of consecutive # from p on
RECURSIVE HashRun(_, _)
HashRun(s, p) == IF p <= Len(s) /\ s[p] = "#" THEN 1 + HashRun(s, p + 1) ELSE 0

\* the lazy [^\n]+? from t: the least n >= 1 whose n characters are not
\* newlines and after which (?:\s*\n|$) matches; 0 if none
RECURSIVE LazySubTitle(_, _, _)
LazySubTitle(s, t, n) ==
    IF t + n - 1 > Len(s) THEN 0
    ELSE IF s[t + n - 1] = NL THEN 0
    ELSE IF TailEnd(s, t + n) # 0 THEN n
    ELSE LazySubTitle(s, t, n + 1)

\* the greedy \s+ that ended at t - 1 backing off one character at a time
\* down to lo: the first group start t for which the rest matches; 0 if none
RECURSIVE SubTitleStart(_, _, _)
SubTitleStart(s, t, lo) ==
    IF t < lo THEN 0
    ELSE IF LazySubTitle(s, t, 1) # 0 THEN t
    ELSE SubTitleStart(s, t - 1, lo)

\* subsection_pattern ^#{3,5}\s+([^\n]+?)(?:\s*\n|$) at p
SubsectionMatchAt(s, p) ==
    IF ~AtLineStart(s, p) THEN NoMatch
    ELSE
    LET h == HashRun(s, p)
    IN  IF ~(h >= 3 /\ h <= 5 /\ p + h <= Len(s) /\ IsSpace(s[p + h])) THEN NoMatch
        ELSE
        LET t == SubTitleStart(s, SkipSpace(s, p + h), p + h + 1)
        IN  IF t = 0 THEN NoMatch
            ELSE LET n == LazySubTitle(s, t, 1)
                 IN  [start |-> p, end |-> TailEnd(s, t + n),
                      gs |-> t, ge |-> t + n - 1]

SubsectionMatches(content) == FindAll(SubsectionMatchAt, content, 1)

\* SubsectionsLoop keeping the subsections whose stripped content is empty
RECURSIVE SubsectionsLoop_keep_empty(_, _, _)
SubsectionsLoop_keep_empty(parts, k, subsections) ==
    IF k > Len(parts) THEN subsections
    ELSE IF k + 1 <= Len(parts)
    THEN SubsectionsLoop_keep_empty(parts, k + 2,
            Append(subsections, [title |-> strip(parts[k]),
                                 content |-> strip(parts[k + 1])]))
    ELSE SubsectionsLoop_keep_empty(parts, k + 2, subsections)

\* the loop of lines 132-141 from parts[k] on (k is the Python index plus 1)
RECURSIVE SubsectionsLoop(_, _, _)
SubsectionsLoop(parts, k, subsections) ==
    IF k > Len(parts) THEN subsections
    ELSE IF k + 1 <= Len(parts) /\ strip(parts[k + 1]) # <<>>
    THEN SubsectionsLoop(parts, k + 2,
            Append(subsections, [title |-> strip(parts[k]),
                                 content |-> strip(parts[k + 1])]))
    ELSE SubsectionsLoop(parts, k + 2, subsections)

extract_subsections(content) ==
    SubsectionsLoop(SplitGroup(content, SubsectionMatches(content), 1), 2, <<>>)

----------------------------------------------------------------------------
(* chunker.py: _has_code_blocks, _classify_content_type *)

Fence == <<BT, BT, BT>>

\* the first index >= i whose character is not a word character
RECURSIVE SkipWord(_, _)
SkipWord(s, i) == IF i <= Len(s) /\ IsWord(s[i]) THEN SkipWord(s, i + 1) ELSE i

\* ```\w*\n at p: the index after the newline, 0 if no match
FenceOpenEnd(s, p) ==
    IF ~StartsAt(s, Fence, p) THEN 0
    ELSE LET w == SkipWord(s, p + 3)
         IN  IF w <= Len(s) /\ s[w] = NL THEN w + 1 ELSE 0

has_code_blocks(content) == \E p \in 1..Len(content) : FenceOpenEnd(content, p) # 0

S_api == <<"a","p","i">>
S_prop == <<"p","r","o","p">>
S_usage == <<"u","s","a","g","e">>
S_example == <<"e","x","a","m","p","l","e">>
S_slot == <<"s","l","o","t">>
S_event == <<"e","v","e","n","t">>

\* classify_content_type with the code-block rule tried before the usage rule
classify_content_type_code_first(title, content) ==
    LET title_lower == lower(title)
    IN  IF Contains(title_lower, S_api) \/ Contains(title_lower, S_prop)
        THEN "api_reference"
        ELSE IF Contains(title_lower, S_example) \/ has_code_blocks(content)
        THEN "code_example"
        ELSE IF Contains(title_lower, S_usage)
        THEN "usage_guide"
        ELSE IF Contains(title_lower, S_slot)
        THEN "slots_reference"
        ELSE IF Contains(title_lower, S_event)
        THEN "events_reference"
        ELSE "documentation"

classify_content_type(title, content) ==
    LET title_lower == lower(title)
    IN  IF Contains(title_lower, S_api) \/ Contains(title_lower, S_prop)
        THEN "api_reference"
        ELSE IF Contains(title_lower, S_usage)
        THEN "usage_guide"
        ELSE IF Contains(title_lower, S_example) \/ has_code_blocks(content)
        THEN "code_example"
        ELSE IF Contains(title_lower, S_slot)
        THEN "slots_reference"
        ELSE IF Contains(title_lower, S_event)
        THEN "events_reference"
        ELSE "documentation"

----------------------------------------------------------------------------
(* chunker.py: _create_chunk.  A method that changes the instance returns *)
(* [self |-> the instance after the call, ret |-> its return value].      *)

ChunkIdPrefix == <<"v","u","e","t","i","f","y","_","c","h","u","n","k","_">>

\* str(n) for n >= 0
RECURSIVE Decimal(_)
Decimal(n) == IF n < 10 THEN << DigitSeq[n + 1] >>
              ELSE Decimal(n \div 10) \o << DigitSeq[(n % 10) + 1] >>

\* the format spec 06d: at least six digits, zero-padded on the left
Format06d(n) ==
    LET d == Decimal(n)
    IN  [i \in 1..(IF Len(d) < 6 THEN 6 - Len(d) ELSE 0) |-> "0"] \o d

\* create_chunk with the ID formatted before the counter is incremented
create_chunk_stale_id(self, content, metadata) ==
    LET counter == self.chunk_counter + 1
        chunk_id == ChunkIdPrefix \o Format06d(self.chunk_counter)
    IN  [self |-> [self EXCEPT !.chunk_counter = counter],
         ret |-> [content |-> content,
                  metadata |-> [chunk_id |-> chunk_id,
                                source |-> "vuetify_documentation"] @@ metadata,
                  chunk_id |-> chunk_id,
                  content_length |-> Len(content),
                  word_count |-> word_count_of(content)]]

create_chunk(self, content, metadata) ==
    LET counter == self.chunk_counter + 1
        chunk_id == ChunkIdPrefix \o Format06d(counter)
    IN  [self |-> [self EXCEPT !.chunk_counter = counter],
         ret |-> [content |-> content,
                  metadata |-> [chunk_id |-> chunk_id,
                                source |-> "vuetify_documentation"] @@ metadata,
                  chunk_id |-> chunk_id,
                  content_length |-> Len(content),
                  word_count |-> word_count_of(content)]]

----------------------------------------------------------------------------
(* chunker.py: _create_overview_chunk *)

OverviewLimit == 400

\* the test of line 157 on a stripped line
Describable(line) ==
    /\ line # <<>>
    /\ ~startswith(line, <<"#">>)
    /\ ~startswith(line, <<"<">>)
    /\ ~startswith(line, Fence)

\* DescriptionLoop going on past a line that is not describable after the
\* collection started
RECURSIVE DescriptionLoop_across_gaps(_, _, _)
DescriptionLoop_across_gaps(lines, k, description_lines) ==
    IF k > Len(lines) THEN description_lines
    ELSE
    LET line == strip(lines[k])
    IN  IF Describable(line)
        THEN LET d == Append(description_lines, line)
             IN  IF Len(join(<<" ">>, d)) > OverviewLimit THEN d
                 ELSE DescriptionLoop_across_gaps(lines, k + 1, d)
        ELSE DescriptionLoop_across_gaps(lines, k + 1, description_lines)

\* the loop of lines 155-162 from lines[k] on: the description lines
RECURSIVE DescriptionLoop(_, _, _)
DescriptionLoop(lines, k, description_lines) ==
    IF k > Len(lines) THEN description_lines
    ELSE
    LET line == strip(lines[k])
    IN  IF Describable(line)
        THEN LET d == Append(description_lines, line)
             IN  IF Len(join(<<" ">>, d)) > OverviewLimit THEN d
                 ELSE DescriptionLoop(lines, k + 1, d)
        ELSE IF description_lines # <<>> THEN description_lines
        ELSE DescriptionLoop(lines, k + 1, description_lines)

S_available == <<NL, NL, "A","v","a","i","l","a","b","l","e"," ",
                 "s","e","c","t","i","o","n","s",":"," ">>

\* ret is None or Some(chunk)
create_overview_chunk(self, section, subsections) ==
    LET component_name == section.component
        description_lines == DescriptionLoop(split_lines(section.content), 1, <<>>)
        overview_content ==
            <<"#", " ">> \o component_name \o <<NL, NL>>
            \o join(<<" ">>, description_lines)
            \o (IF subsections # <<>>
                THEN S_available \o join(<<",", " ">>,
                        [i \in 1..Len(subsections) |-> subsections[i].title])
                ELSE <<>>)
    IN  IF description_lines = <<>>
        THEN [self |-> self, ret |-> None]
        ELSE LET r == create_chunk(self, overview_content,
                        [component |-> component_name,
                         section_type |-> "overview",
                         subsection |-> None,
                         content_type |-> "component_overview"])
             IN  [self |-> r.self, ret |-> Some(r.ret)]

----------------------------------------------------------------------------
(* chunker.py: _process_code_content *)

\* the first index >= j at which \n``` starts, 0 if none
RECURSIVE FindClose(_, _)
FindClose(s, j) ==
    IF j + 3 > Len(s) THEN 0
    ELSE IF StartsAt(s, <<NL>> \o Fence, j) THEN j
    ELSE FindClose(s, j + 1)

\* (```[\w]*\n.*?\n```) under re.DOTALL at p: the lazy body ends at the first
\* \n``` after the newline of the opening fence
CodeBlockMatchAt(s, p) ==
    LET o == FenceOpenEnd(s, p)
    IN  IF o = 0 THEN NoMatch
        ELSE LET j == FindClose(s, o)
             IN  IF j = 0 THEN NoMatch
                 ELSE [start |-> p, end |-> j + 4, gs |-> p, ge |-> j + 3]

CodeBlockMatches(content) == FindAll(CodeBlockMatchAt, content, 1)

S_text == <<"t","e","x","t">>

\* lines 265-266: re.match of ```(\w+) on the part as it is
language_of(part) ==
    IF StartsAt(part, Fence, 1) /\ SkipWord(part, 4) > 4
    THEN Slice(part, 4, SkipWord(part, 4) - 1)
    ELSE S_text

\* the heading line of a subsection chunk: ## {component_name} - {title}\n\n
SubsectionHeading(component_name, title) ==
    <<"#", "#", " ">> \o component_name \o <<" ", "-", " ">> \o title \o <<NL, NL>>

\* the loop of lines 255-282 from parts[k] on
RECURSIVE CodeLoop(_, _, _, _, _, _, _)
CodeLoop(self, parts, k, current_text, chunks, component_name, title) ==
    IF k > Len(parts) THEN [self |-> self, ret |-> chunks]
    ELSE
    LET part == parts[k]
    IN  IF startswith(strip(part), Fence)
        THEN LET full_content ==
                    SubsectionHeading(component_name, title)
                    \o (IF strip(current_text) # <<>>
                        THEN strip(current_text) \o <<NL, NL>> ELSE <<>>)
                    \o strip(part)
                 r == create_chunk(self, full_content,
                        [component |-> component_name,
                         section_type |-> "code_example",
                         subsection |-> Some(title),
                         content_type |-> "code_example",
                         language |-> language_of(part),
                         has_explanation |-> (strip(current_text) # <<>>)])
             IN  CodeLoop(r.self, parts, k + 1, <<>>, Append(chunks, r.ret),
                          component_name, title)
        ELSE CodeLoop(self, parts, k + 1, current_text \o part, chunks,
                      component_name, title)

process_code_content(self, content, component_name, title) ==
    CodeLoop(self, SplitGroup(content, CodeBlockMatches(content), 1), 1, <<>>, <<>>,
             component_name, title)

----------------------------------------------------------------------------
(* chunker.py: _split_large_content *)

\* (?<=[.!?])\s+ at p
SentenceBreakAt(s, p) ==
    IF p > 1 /\ p <= Len(s) /\ s[p - 1] \in {".", "!", "?"} /\ IsSpace(s[p])
    THEN [start |-> p, end |-> SkipSpace(s, p), gs |-> 0, ge |-> 0]
    ELSE NoMatch

split_sentences(content) ==
    SplitPlain(content, FindAll(SentenceBreakAt, content, 1), 1)

\* PackLoop with the length of the sentence left out of the test of line 297
RECURSIVE PackLoop_no_sentence_length(_, _, _, _, _)
PackLoop_no_sentence_length(self, sentences, k, chunks, current_chunk) ==
    IF k > Len(sentences)
    THEN IF current_chunk # <<>> THEN Append(chunks, strip(current_chunk))
         ELSE chunks
    ELSE
    LET sentence == sentences[k]
    IN  IF Len(current_chunk) <= self.max_chunk_size
        THEN PackLoop_no_sentence_length(self, sentences, k + 1, chunks,
                      current_chunk \o sentence \o <<" ">>)
        ELSE PackLoop_no_sentence_length(self, sentences, k + 1,
                      IF current_chunk # <<>>
                      THEN Append(chunks, strip(current_chunk)) ELSE chunks,
                      sentence \o <<" ">>)

\* PackLoop with the last self.overlap characters of a closed piece carried
\* over to the start of the next piece
RECURSIVE PackLoop_with_overlap(_, _, _, _, _)
PackLoop_with_overlap(self, sentences, k, chunks, current_chunk) ==
    IF k > Len(sentences)
    THEN IF current_chunk # <<>> THEN Append(chunks, strip(current_chunk))
         ELSE chunks
    ELSE
    LET sentence == sentences[k]
        keep == IF self.overlap < Len(current_chunk) THEN self.overlap
                ELSE Len(current_chunk)
        carried == Slice(current_chunk, Len(current_chunk) - keep + 1,
                         Len(current_chunk))
    IN  IF Len(current_chunk) + Len(sentence) <= self.max_chunk_size
        THEN PackLoop_with_overlap(self, sentences, k + 1, chunks,
                      current_chunk \o sentence \o <<" ">>)
        ELSE PackLoop_with_overlap(self, sentences, k + 1,
                      IF current_chunk # <<>>
                      THEN Append(chunks, strip(current_chunk)) ELSE chunks,
                      carried \o sentence \o <<" ">>)

\* the loop of lines 296-302 from sentences[k] on, then lines 304-305
RECURSIVE PackLoop(_, _, _, _, _)
PackLoop(self, sentences, k, chunks, current_chunk) ==
    IF k > Len(sentences)
    THEN IF current_chunk # <<>> THEN Append(chunks, strip(current_chunk))
         ELSE chunks
    ELSE
    LET sentence == sentences[k]
    IN  IF Len(current_chunk) + Len(sentence) <= self.max_chunk_size
        THEN PackLoop(self, sentences, k + 1, chunks,
                      current_chunk \o sentence \o <<" ">>)
        ELSE PackLoop(self, sentences, k + 1,
                      IF current_chunk # <<>>
                      THEN Append(chunks, strip(current_chunk)) ELSE chunks,
                      sentence \o <<" ">>)

split_large_content(self, content) ==
    IF Len(content) <= self.max_chunk_size THEN <<content>>
    ELSE PackLoop(self, split_sentences(content), 1, <<>>, <<>>)

----------------------------------------------------------------------------
(* chunker.py: _process_subsection, _process_component_section,           *)
(* chunk_documentation                                                     *)

\* the loop of lines 205-221 from text_chunks[k] on (k is i plus 1)
RECURSIVE TextLoop(_, _, _, _, _, _, _)
TextLoop(self, text_chunks, k, chunks, component_name, title, content_type) ==
    IF k > Len(text_chunks) THEN [self |-> self, ret |-> chunks]
    ELSE
    LET full_content == SubsectionHeading(component_name, title) \o text_chunks[k]
        r == create_chunk(self, full_content,
                [component |-> component_name,
                 section_type |-> "subsection",
                 subsection |-> Some(title),
                 content_type |-> content_type,
                 chunk_index |-> k - 1])
        self2 == IF content_type = "api_reference"
                 THEN [r.self EXCEPT !.stats.api_sections = @ + 1]
                 ELSE r.self
    IN  TextLoop(self2, text_chunks, k + 1, Append(chunks, r.ret),
                 component_name, title, content_type)

process_subsection(self, subsection, component_name) ==
    LET title == subsection.title
        content == subsection.content
        content_type == classify_content_type(title, content)
    IN  IF has_code_blocks(content)
        THEN LET r == process_code_content(self, content, component_name, title)
             IN  [self |-> IF content_type = "code_example"
                           THEN [r.self EXCEPT !.stats.code_examples = @ + Len(r.ret)]
                           ELSE r.self,
                  ret |-> r.ret]
        ELSE TextLoop(self, split_large_content(self, content), 1, <<>>,
                      component_name, title, content_type)

\* the loop of lines 118-120 from subsections[k] on
RECURSIVE SubsectionChunksLoop(_, _, _, _, _)
SubsectionChunksLoop(self, subsections, k, chunks, component_name) ==
    IF k > Len(subsections) THEN [self |-> self, ret |-> chunks]
    ELSE LET r == process_subsection(self, subsections[k], component_name)
         IN  SubsectionChunksLoop(r.self, subsections, k + 1, chunks \o r.ret,
                                  component_name)

\* process_component_section with the chunks of the subsections created
\* before the overview chunk
process_component_section_overview_last(self, section) ==
    LET subsections == extract_subsections(section.content)
        r == SubsectionChunksLoop(self, subsections, 1, <<>>, section.component)
        o == create_overview_chunk(r.self, section, subsections)
    IN  [self |-> o.self,
         ret |-> r.ret \o (IF o.ret # None THEN <<o.ret[1]>> ELSE <<>>)]

process_component_section(self, section) ==
    LET subsections == extract_subsections(section.content)
        o == create_overview_chunk(self, section, subsections)
    IN  SubsectionChunksLoop(o.self, subsections, 1,
                             IF o.ret # None THEN <<o.ret[1]>> ELSE <<>>,
                             section.component)

\* SectionChunksLoop with the chunks of a section put before those of the
\* sections processed earlier
RECURSIVE SectionChunksLoop_newest_first(_, _, _, _)
SectionChunksLoop_newest_first(self, sections, k, chunks) ==
    IF k > Len(sections) THEN [self |-> self, ret |-> chunks]
    ELSE LET r == process_component_section(self, sections[k])
         IN  SectionChunksLoop_newest_first(r.self, sections, k + 1,
                                            r.ret \o chunks)

\* the loop of lines 52-54 from sections[k] on
RECURSIVE SectionChunksLoop(_, _, _, _)
SectionChunksLoop(self, sections, k, chunks) ==
    IF k > Len(sections) THEN [self |-> self, ret |-> chunks]
    ELSE LET r == process_component_section(self, sections[k])
         IN  SectionChunksLoop(r.self, sections, k + 1, chunks \o r.ret)

\* stats.processing_time is wall-clock time and is left out of the model
chunk_documentation(self, doc_content) ==
    LET all_chunks(sections) ==
            LET with_stats(r) ==
                    [self |-> [r.self EXCEPT
                                  !.stats.total_chunks = Len(r.ret),
                                  !.stats.components_found = Len(sections)],
                     ret |-> r.ret]
            IN  with_stats(SectionChunksLoop(self, sections, 1, <<>>))
    IN  all_chunks(extract_component_sections(doc_content))

\* VuetifyDocChunker(max_chunk_size, overlap)
new_chunker(max_chunk_size, overlap) ==
    [max_chunk_size |-> max_chunk_size,
     overlap |-> overlap,
     chunk_counter |-> 0,
     stats |-> [total_chunks |-> 0, components_found |-> 0,
                code_examples |-> 0, api_sections |-> 0]]

----------------------------------------------------------------------------
(* enhanced-query-processor.py: VuetifyQueryProcessor *)

\* intent_keywords, in the insertion order of the dict (lines 46-80)
IntentKeywords == <<
    [query_type |-> "api_reference", keywords |-> <<
        <<"p","r","o","p","s">>,
        <<"p","r","o","p","e","r","t","i","e","s">>,
        <<"a","t","t","r","i","b","u","t","e","s">>,
        <<"a","p","i">>,
        <<"o","p","t","i","o","n","s">>,
        <<"p","a","r","a","m","e","t","e","r","s">>,
        <<"c","o","n","f","i","g","u","r","a","t","i","o","n">>,
        <<"m","e","t","h","o","d","s">>,
        <<"e","v","e","n","t","s">>>>],
    [query_type |-> "code_example", keywords |-> <<
        <<"e","x","a","m","p","l","e">>,
        <<"s","a","m","p","l","e">>,
        <<"d","e","m","o">>,
        <<"c","o","d","e">>,
        <<"i","m","p","l","e","m","e","n","t","a","t","i","o","n">>,
        <<"t","u","t","o","r","i","a","l">>,
        <<"w","a","l","k","t","h","r","o","u","g","h">>,
        <<"s","n","i","p","p","e","t">>>>],
    [query_type |-> "styling", keywords |-> <<
        <<"s","t","y","l","e">>,
        <<"c","s","s">>,
        <<"c","o","l","o","r">>,
        <<"t","h","e","m","e">>,
        <<"a","p","p","e","a","r","a","n","c","e">>,
        <<"d","e","s","i","g","n">>,
        <<"l","a","y","o","u","t">>,
        <<"s","p","a","c","i","n","g">>,
        <<"m","a","r","g","i","n">>,
        <<"p","a","d","d","i","n","g">>,
        <<"e","l","e","v","a","t","i","o","n">>,
        <<"r","o","u","n","d","e","d">>,
        <<"v","a","r","i","a","n","t">>,
        <<"s","i","z","e">>>>],
    [query_type |-> "component_usage", keywords |-> <<
        <<"h","o","w"," ","t","o">>,
        <<"u","s","e">>,
        <<"c","r","e","a","t","e">>,
        <<"m","a","k","e">>,
        <<"b","u","i","l","d">>,
        <<"s","e","t","u","p">>,
        <<"c","o","n","f","i","g","u","r","e">>,
        <<"i","m","p","l","e","m","e","n","t">>,
        <<"a","d","d">>>>],
    [query_type |-> "comparison", keywords |-> <<
        <<"v","s">>,
        <<"v","e","r","s","u","s">>,
        <<"d","i","f","f","e","r","e","n","c","e">>,
        <<"c","o","m","p","a","r","e">>,
        <<"c","o","m","p","a","r","i","s","o","n">>,
        <<"b","e","t","w","e","e","n">>,
        <<"a","l","t","e","r","n","a","t","i","v","e">>,
        <<"i","n","s","t","e","a","d">>>>],
    [query_type |-> "troubleshooting", keywords |-> <<
        <<"n","o","t"," ","w","o","r","k","i","n","g">>,
        <<"b","r","o","k","e","n">>,
        <<"e","r","r","o","r">>,
        <<"i","s","s","u","e">>,
        <<"p","r","o","b","l","e","m">>,
        <<"f","i","x">>,
        <<"d","e","b","u","g">>,
        <<"t","r","o","u","b","l","e","s","h","o","o","t">>,
        <<"h","e","l","p">>>>],
    [query_type |-> "best_practices", keywords |-> <<
        <<"b","e","s","t"," ","p","r","a","c","t","i","c","e">>,
        <<"r","e","c","o","m","m","e","n","d","e","d">>,
        <<"a","c","c","e","s","s","i","b","i","l","i","t","y">>,
        <<"a","1","1","y">>,
        <<"p","e","r","f","o","r","m","a","n","c","e">>,
        <<"o","p","t","i","m","i","z","a","t","i","o","n">>,
        <<"s","h","o","u","l","d">>,
        <<"g","u","i","d","e","l","i","n","e","s">>>>],
    [query_type |-> "integration", keywords |-> <<
        <<"r","o","u","t","e","r">>,
        <<"v","u","e","x">>,
        <<"p","i","n","i","a">>,
        <<"t","y","p","e","s","c","r","i","p","t">>,
        <<"n","u","x","t">>,
        <<"i","n","t","e","g","r","a","t","i","o","n">>,
        <<"w","i","t","h">>,
        <<"u","s","i","n","g">>>>] >>

\* vuetify_keywords, the lists of the categories one after the other in the
\* insertion order of the dict (lines 83-94)
VuetifyKeywords == <<
    \* colors
    <<"p","r","i","m","a","r","y">>,
    <<"s","e","c","o","n","d","a","r","y">>,
    <<"a","c","c","e","n","t">>,
    <<"e","r","r","o","r">>,
    <<"i","n","f","o">>,
    <<"s","u","c","c","e","s","s">>,
    <<"w","a","r","n","i","n","g">>,
    <<"s","u","r","f","a","c","e">>,
    \* variants
    <<"e","l","e","v","a","t","e","d">>,
    <<"f","l","a","t">>,
    <<"t","o","n","a","l">>,
    <<"o","u","t","l","i","n","e","d">>,
    <<"t","e","x","t">>,
    <<"p","l","a","i","n">>,
    \* sizes
    <<"x","-","s","m","a","l","l">>,
    <<"s","m","a","l","l">>,
    <<"d","e","f","a","u","l","t">>,
    <<"l","a","r","g","e">>,
    <<"x","-","l","a","r","g","e">>,
    \* density
    <<"d","e","f","a","u","l","t">>,
    <<"c","o","m","f","o","r","t","a","b","l","e">>,
    <<"c","o","m","p","a","c","t">>,
    \* themes
    <<"l","i","g","h","t">>,
    <<"d","a","r","k">>,
    <<"t","h","e","m","e">>,
    \* layout
    <<"c","o","n","t","a","i","n","e","r">>,
    <<"r","o","w">>,
    <<"c","o","l">>,
    <<"s","p","a","c","e","r">>,
    <<"f","l","e","x">>,
    \* navigation
    <<"d","r","a","w","e","r">>,
    <<"t","a","b","s">>,
    <<"b","r","e","a","d","c","r","u","m","b","s">>,
    <<"s","t","e","p","p","e","r">>,
    \* input
    <<"v","a","l","i","d","a","t","i","o","n">>,
    <<"r","u","l","e","s">>,
    <<"r","e","q","u","i","r","e","d">>,
    <<"e","m","a","i","l">>,
    \* data
    <<"t","a","b","l","e">>,
    <<"l","i","s","t">>,
    <<"i","t","e","r","a","t","o","r">>,
    <<"p","a","g","i","n","a","t","i","o","n">>,
    <<"s","o","r","t","i","n","g">> >>

IsWordAt(s, i) == i >= 1 /\ i <= Len(s) /\ IsWord(s[i])

\* \b between s[p-1] and s[p]
WordBoundary(s, p) == IsWordAt(s, p - 1) # IsWordAt(s, p)

\* the first index >= i whose character is not in [a-z-] (re.IGNORECASE)
RECURSIVE SkipNameChars(_, _)
SkipNameChars(s, i) ==
    IF i <= Len(s) /\ (IsAlpha(s[i]) \/ s[i] = "-") THEN SkipNameChars(s, i + 1) ELSE i

\* the greedy [a-z-]+ that ended at t - 1 backing off down to lo: the first
\* end t at which \b holds; 0 if none
RECURSIVE NameEnd(_, _, _)
NameEnd(s, t, lo) ==
    IF t < lo THEN 0
    ELSE IF WordBoundary(s, t) THEN t
    ELSE NameEnd(s, t - 1, lo)

\* component_patterns[0]: \bv-[a-z-]+\b under re.IGNORECASE at p
VTokenMatchAt(s, p) ==
    IF ~(/\ WordBoundary(s, p)
         /\ p + 1 <= Len(s)
         /\ s[p] \in {"v", "V"}
         /\ s[p + 1] = "-")
    THEN NoMatch
    ELSE LET t == NameEnd(s, SkipNameChars(s, p + 2), p + 3)
         IN  IF t = 0 THEN NoMatch
             ELSE [start |-> p, end |-> t, gs |-> p, ge |-> t - 1]

\* the first index >= i whose character is not a letter
RECURSIVE SkipAlpha(_, _)
SkipAlpha(s, i) == IF i <= Len(s) /\ IsAlpha(s[i]) THEN SkipAlpha(s, i + 1) ELSE i

\* component_patterns[1]: \b[A-Z][a-z]+(?:[A-Z][a-z]+)*\b under re.IGNORECASE
\* at p.  Ignoring case both classes are the letters, so the pattern takes a
\* run of two or more letters; \b cannot hold inside the run, so only the
\* whole run can match.
CamelMatchAt(s, p) ==
    IF ~(WordBoundary(s, p) /\ p <= Len(s) /\ IsAlpha(s[p])) THEN NoMatch
    ELSE LET e == SkipAlpha(s, p)
         IN  IF e - p >= 2 /\ WordBoundary(s, e)
             THEN [start |-> p, end |-> e, gs |-> p, ge |-> e - 1]
             ELSE NoMatch

\* re.findall: the matched texts
findall(MatchAt(_, _), s) ==
    LET ms == FindAll(MatchAt, s, 1)
    IN  [i \in 1..Len(ms) |-> Slice(s, ms[i].gs, ms[i].ge)]

\* re.sub(r'([A-Z])', r'-\1', match)
RECURSIVE hyphen_before_capitals(_)
hyphen_before_capitals(s) ==
    IF s = <<>> THEN <<>>
    ELSE (IF IsUpper(s[1]) THEN <<"-", s[1]>> ELSE <<s[1]>>)
         \o hyphen_before_capitals(Tail(s))

\* str.strip('-')
RECURSIVE strip_hyphens(_)
strip_hyphens(s) ==
    IF s # <<>> /\ s[1] = "-" THEN strip_hyphens(Tail(s))
    ELSE IF s # <<>> /\ s[Len(s)] = "-" THEN strip_hyphens(Slice(s, 1, Len(s) - 1))
    ELSE s

\* lines 131-136 for one match
\* normalize_component with the conversion of line 85 of chunker.py in the
\* place of the CamelCase conversion
normalize_component_as_chunker(match) ==
    IF ~startswith(lower(match), <<"v", "-">>)
    THEN <<"v", "-">> \o replace_space_hyphen(lower(match))
    ELSE lower(match)

normalize_component(match) ==
    IF ~startswith(lower(match), <<"v", "-">>)
    THEN lower(<<"v", "-">> \o strip_hyphens(lower(hyphen_before_capitals(match))))
    ELSE lower(match)

\* the list components before line 138
component_list(query) ==
    LET all == findall(VTokenMatchAt, query) \o findall(CamelMatchAt, query)
    IN  [i \in 1..Len(all) |-> normalize_component(all[i])]

\* set(components)
component_set(query) ==
    LET l == component_list(query) IN {l[i] : i \in 1..Len(l)}

\* list(set(components)): the elements of the set in an order the language
\* does not define (it follows the hash values of the strings); every
\* ordering is a possible return value
RECURSIVE Orderings(_)
Orderings(S) ==
    IF S = {} THEN {<<>>}
    ELSE UNION {{<<x>> \o l : l \in Orderings(S \ {x})} : x \in S}

extract_components(query) == Orderings(component_set(query))

\* a score score/len(keywords) as the pair of its numerator and denominator
Ratio(n, d) == [num |-> n, den |-> d]
RatioLess(a, b) == a.num * b.den < b.num * a.den
\* confidence > 0.1
ConfidenceThreshold(c) == 10 * c.num > c.den

\* lines 148-155 for the i-th query type
type_score(query_lower, i) ==
    LET keywords == IntentKeywords[i].keywords
    IN  Ratio(Cardinality({k \in 1..Len(keywords) : Contains(query_lower, keywords[k])}),
              Len(keywords))

\* classify_query_type with the score normalised by integer division
classify_query_type_floor_division(query) ==
    LET query_lower == lower(query)
        n == Len(IntentKeywords)
        floor(r) == Ratio(r.num \div r.den, 1)
        best == CHOOSE i \in 1..n :
                    /\ \A j \in 1..(i - 1) :
                          RatioLess(floor(type_score(query_lower, j)),
                                    floor(type_score(query_lower, i)))
                    /\ \A j \in (i + 1)..n :
                          ~RatioLess(floor(type_score(query_lower, i)),
                                     floor(type_score(query_lower, j)))
        confidence == floor(type_score(query_lower, best))
    IN  IF ConfidenceThreshold(confidence)
        THEN [query_type |-> IntentKeywords[best].query_type, confidence |-> confidence]
        ELSE [query_type |-> "component_usage", confidence |-> Ratio(1, 2)]

\* classify_query_type with max() returning the last of the largest scores
classify_query_type_last_of_ties(query) ==
    LET query_lower == lower(query)
        n == Len(IntentKeywords)
        best == CHOOSE i \in 1..n :
                    /\ \A j \in 1..(i - 1) :
                          ~RatioLess(type_score(query_lower, i), type_score(query_lower, j))
                    /\ \A j \in (i + 1)..n :
                          RatioLess(type_score(query_lower, j), type_score(query_lower, i))
        confidence == type_score(query_lower, best)
    IN  IF ConfidenceThreshold(confidence)
        THEN [query_type |-> IntentKeywords[best].query_type, confidence |-> confidence]
        ELSE [query_type |-> "component_usage", confidence |-> Ratio(1, 2)]

\* [query_type, confidence]; max() returns the first of the largest scores in
\* the iteration order of the dict
classify_query_type(query) ==
    LET query_lower == lower(query)
        n == Len(IntentKeywords)
        best == CHOOSE i \in 1..n :
                    /\ \A j \in 1..(i - 1) :
                          RatioLess(type_score(query_lower, j), type_score(query_lower, i))
                    /\ \A j \in (i + 1)..n :
                          ~RatioLess(type_score(query_lower, i), type_score(query_lower, j))
        confidence == type_score(query_lower, best)
    IN  IF ConfidenceThreshold(confidence)
        THEN [query_type |-> IntentKeywords[best].query_type, confidence |-> confidence]
        ELSE [query_type |-> "component_usage", confidence |-> Ratio(1, 2)]

\* extract_keywords matching whole words of the query instead of substrings
extract_keywords_whole_words(query) ==
    LET query_lower == lower(query)
        IsFound(keyword) ==
            \E i \in 1..Len(query_lower) :
                /\ StartsAt(query_lower, keyword, i)
                /\ WordBoundary(query_lower, i)
                /\ WordBoundary(query_lower, i + Len(keyword))
    IN  SelectSeq(VuetifyKeywords, IsFound)

extract_keywords(query) ==
    LET query_lower == lower(query)
        IsFound(keyword) == Contains(query_lower, keyword)
    IN  SelectSeq(VuetifyKeywords, IsFound)

\* the dict filters as a record of optional values: an absent key is None,
\* which is what filters.get(key) returns for it
generate_filters(query, components, query_type) ==
    [component |-> IF components # <<>> THEN Some(components[1]) ELSE None,
     content_type |->
        IF query_type = "api_reference" THEN Some("api_reference")
        ELSE IF query_type = "code_example" THEN Some("code_example")
        ELSE IF query_type = "component_usage" THEN Some("usage_guide")
        ELSE IF query_type = "styling" THEN Some("documentation")
        ELSE None]

\* type_context of _enhance_query (lines 222-229)
TypeContext == <<
    [query_type |-> "api_reference", text |-> <<"p","r","o","p","s"," ","m","e","t","h","o","d","s"," ","e","v","e","n","t","s"," ","A","P","I"," ","d","o","c","u","m","e","n","t","a","t","i","o","n">>],
    [query_type |-> "code_example", text |-> <<"c","o","d","e"," ","e","x","a","m","p","l","e","s"," ","i","m","p","l","e","m","e","n","t","a","t","i","o","n"," ","t","u","t","o","r","i","a","l">>],
    [query_type |-> "styling", text |-> <<"C","S","S"," ","s","t","y","l","i","n","g"," ","t","h","e","m","e","s"," ","c","o","l","o","r","s"," ","a","p","p","e","a","r","a","n","c","e">>],
    [query_type |-> "component_usage", text |-> <<"u","s","a","g","e"," ","g","u","i","d","e"," ","h","o","w","-","t","o"," ","t","u","t","o","r","i","a","l">>],
    [query_type |-> "troubleshooting", text |-> <<"t","r","o","u","b","l","e","s","h","o","o","t","i","n","g"," ","d","e","b","u","g","g","i","n","g"," ","s","o","l","u","t","i","o","n","s">>],
    [query_type |-> "best_practices", text |-> <<"b","e","s","t"," ","p","r","a","c","t","i","c","e","s"," ","r","e","c","o","m","m","e","n","d","a","t","i","o","n","s"," ","g","u","i","d","e","l","i","n","e","s">>] >>

S_vuetify_context == <<"V","u","e","t","i","f","y"," ","V","u","e",".","j","s"," ","c","o","m","p","o","n","e","n","t"," ","l","i","b","r","a","r","y">>
S_components == <<"c","o","m","p","o","n","e","n","t","s",":"," ">>
S_related == <<"r","e","l","a","t","e","d",":"," ">>

enhance_query(original_query, components, keywords, query_type) ==
    LET ctx == SelectSeq(TypeContext, LAMBDA t : t.query_type = query_type)
        enhanced_parts ==
            <<original_query, S_vuetify_context>>
            \o (IF components # <<>>
                THEN << S_components \o join(<<" ">>, components) >> ELSE <<>>)
            \o (IF keywords # <<>>
                THEN << S_related \o join(<<" ">>, keywords) >> ELSE <<>>)
            \o [i \in 1..Len(ctx) |-> ctx[i].text]
    IN  join(<<" ">>, enhanced_parts)

\* analyze_query; components is the list _extract_components returned
analyze_query(query, components) ==
    LET t == classify_query_type(query)
        keywords == extract_keywords(query)
    IN  [original_query |-> query,
         query_type |-> t.query_type,
         components |-> components,
         keywords |-> keywords,
         intent_confidence |-> t.confidence,
         suggested_filters |-> generate_filters(query, components, t.query_type),
         enhanced_query |-> enhance_query(query, components, keywords, t.query_type)]

----------------------------------------------------------------------------
(* Inputs *)

\* the concatenations of at most k of the fragments F
RECURSIVE Concats(_, _)
Concats(F, k) ==
    IF k = 0 THEN {<<>>}
    ELSE LET P == Concats(F, k - 1) IN P \cup {p \o f : p \in P, f \in F}

\* the sequences of 1 to k of the words W joined by single spaces
RECURSIVE Phrases(_, _)
Phrases(W, k) ==
    IF k = 1 THEN W
    ELSE LET P == Phrases(W, k - 1) IN P \cup {p \o <<" ">> \o w : p \in P, w \in W}

\* the default max_chunk_size and overlap, and a small max_chunk_size that
\* short documents exceed
MaxChunkSizes == {12, 1200}
Overlaps == {0, 150}

\* the two-component document of the end-to-end scenario
ScenarioDoc ==
    <<"#", "#", " ", "B", "u", "t", "t", "o", "n", NL, "S", "h", "o", "r", "t",
    " ", "i", "n", "t", "r", "o", ".", NL, "#", "#", "#", " ", "U", "s", "a",
    "g", "e", NL, "D", "o", " ", "X", ".", NL, "#", "#", "#", " ", "A", "P",
    "I", NL, "-", " ", "p", "r", "o", "p", ":", " ", "c", "o", "l", "o", "r",
    NL, "#", "#", " ", "C", "a", "r", "d", NL, "A", "n", "o", "t", "h", "e",
    "r", " ", "i", "n", "t", "r", "o", ".", NL>>

\* a heading that already starts with the prefix
PrefixedDoc ==
    <<"#", "#", " ", "V", "-", "B", "t", "n", NL, "A", " ", "b", "u", "t", "t",
    "o", "n", ".", NL>>

\* a subsection with a fenced code block, then a subsection of prose
CodeDoc ==
    <<"#", "#", " ", "D", "a", "t", "a", " ", "T", "a", "b", "l", "e", NL, "R",
    "o", "w", "s", ".", NL, "#", "#", "#", " ", "U", "s", "a", "g", "e", NL,
    "C", "a", "l", "l", " ", "i", "t", ".", NL, BT, BT, BT, "j", "s", NL, "r",
    "u", "n", "(", ")", NL, BT, BT, BT, NL, "#", "#", "#", " ", "N", "o", "t",
    "e", "s", NL, "O", "n", "e", " ", "t", "w", "o", ".", " ", "T", "h", "r",
    "e", "e", " ", "f", "o", "u", "r", ".", " ", "F", "i", "v", "e", ".", NL>>

\* no component heading at all
PlainDoc ==
    <<"j", "u", "s", "t", " ", "t", "e", "x", "t", NL>>

\* a heading without a body at the end of the document
BareDoc ==
    <<"#", " ", "A", "l", "e", "r", "t", NL, "S", "h", "o", "w", "n", " ", "o",
    "n", "c", "e", ".", NL, "#", "#", " ", "C", "h", "i", "p">>

\* a subsection with two fenced code blocks, then a subsection of two sentences
TabsDoc ==
    <<"#", "#", " ", "T", "a", "b", NL, "H", "i", ".", NL, "#", "#", "#",
    " ", "E", "x", NL, BT, BT, BT, NL, "a", NL, BT, BT, BT, NL, BT, BT, BT,
    NL, "b", NL, BT, BT, BT, NL, "#", "#", "#", " ", "N", NL, "O", "n", "e",
    " ", "t", "w", "o", ".", " ", "T", "h", "r", "e", "e", " ", "f", "o",
    "u", "r", ".", NL>>

Docs == {ScenarioDoc, PrefixedDoc, CodeDoc, PlainDoc, BareDoc, TabsDoc}

\* chunk_documentation is called while the instance has emitted fewer chunks
MaxChunks == 6

----------------------------------------------------------------------------
(* Spec: one VuetifyDocChunker instance and the chunk_documentation calls *)
(* made on it                                                              *)

Init ==
    /\ chunker \in {new_chunker(m, o) : m \in MaxChunkSizes, o \in Overlaps}
    /\ op = "init"
    /\ arg = None
    /\ ret = None
    /\ emitted = <<>>
    /\ rag = None
    /\ locals = None

ChunkDocumentation(doc_content) ==
    /\ Len(emitted) < MaxChunks
    /\ \E r \in {chunk_documentation(chunker, doc_content)} :
           /\ chunker' = r.self
           /\ ret' = r.ret
           /\ emitted' = emitted \o r.ret
    /\ op' = "chunk_documentation"
    /\ arg' = doc_content
    /\ UNCHANGED <<rag, locals>>

Next == \E doc_content \in Docs : ChunkDocumentation(doc_content)

Spec == Init /\ [][Next]_vars

----------------------------------------------------------------------------
(* Chunk IDs *)

\* vuetify_chunk_ followed by k written with six digits, for k below 100
ExpectedChunkId(k) ==
    ChunkIdPrefix \o <<"0", "0", "0", "0">>
    \o << DigitSeq[(k \div 10) + 1], DigitSeq[(k % 10) + 1] >>

\* C1: the k-th chunk an instance creates, counted over all its
\* chunk_documentation calls, has the ID vuetify_chunk_ followed by k as six
\* zero-padded digits, so the numbers start at 1 and go up by exactly 1, a
\* second run continues the counter, no two chunks share an ID, and
\* metadata.chunk_id equals chunk_id.
ChunkIdsCountUp ==
    /\ chunker.chunk_counter = Len(emitted)
    /\ \A k \in 1..Len(emitted) :
        /\ emitted[k].chunk_id = ExpectedChunkId(k)
        /\ emitted[k].metadata.chunk_id = emitted[k].chunk_id
    /\ \A i, j \in 1..Len(emitted) :
        i # j => emitted[i].chunk_id # emitted[j].chunk_id

\* a second run on the same instance has produced chunks after those of the first
SecondRunEmitted ==
    /\ op = "chunk_documentation"
    /\ ret # <<>>
    /\ Len(emitted) > Len(ret)

----------------------------------------------------------------------------
(* The end-to-end scenario *)

S_v_button == <<"v","-","b","u","t","t","o","n">>
S_v_card == <<"v","-","c","a","r","d">>
S_Usage == <<"U","s","a","g","e">>
S_API == <<"A","P","I">>

\* chunk_documentation(ScenarioDoc) has just returned on an instance that had
\* created no chunk before
FreshScenarioRun ==
    /\ op = "chunk_documentation"
    /\ arg = ScenarioDoc
    /\ Len(emitted) = Len(ret)

IsOverviewOf(chunk, component) ==
    /\ chunk.metadata.component = component
    /\ chunk.metadata.section_type = "overview"
    /\ chunk.metadata.content_type = "component_overview"
    /\ chunk.metadata.subsection = None

IsSubsectionChunkOf(chunk, component, title, content_type) ==
    /\ chunk.metadata.component = component
    /\ chunk.metadata.subsection = Some(title)
    /\ chunk.metadata.content_type = content_type

\* the four chunks the scenario lists, in its order
ScenarioChunksListed ==
    /\ Len(ret) >= 4
    /\ IsOverviewOf(ret[1], S_v_button)
    /\ IsSubsectionChunkOf(ret[2], S_v_button, S_Usage, "usage_guide")
    /\ IsSubsectionChunkOf(ret[3], S_v_button, S_API, "api_reference")
    /\ IsOverviewOf(ret[4], S_v_card)
    /\ \A k \in 1..Len(ret) :
        ret[k].metadata.component = S_v_card => ret[k].metadata.subsection = None

\* C2 as stated: the scenario gives the overview of v-button, its usage_guide
\* chunk, its api_reference chunk and the overview of v-card, five chunks in
\* total with the IDs 1 to 5 in that order.
ScenarioFiveChunks ==
    FreshScenarioRun =>
        /\ Len(ret) = 5
        /\ ScenarioChunksListed
        /\ \A k \in 1..5 : ret[k].chunk_id = ExpectedChunkId(k)

\* C2 amended: the scenario gives the overview of v-button, its usage_guide
\* chunk, its api_reference chunk and the overview of v-card and no subsection
\* chunk for v-card, four chunks in total with the IDs 1 to 4 in that order.
ScenarioFourChunks ==
    FreshScenarioRun =>
        /\ Len(ret) = 4
        /\ ScenarioChunksListed
        /\ \A k \in 1..4 : ret[k].chunk_id = ExpectedChunkId(k)

----------------------------------------------------------------------------
(* Component names *)

\* v- followed by lower-case letters, digits and hyphens
IsKebabId(c) ==
    /\ Len(c) > 2
    /\ startswith(c, <<"v", "-">>)
    /\ \A i \in 1..Len(c) : c[i] \in LowerSet \cup DigitSet \cup {"-"}

\* C8: the metadata.component of every chunk is a v-prefixed, lower-case,
\* kebab-case identifier, also when the heading already starts with the prefix
\* in upper case.
ComponentsAreKebab ==
    \A k \in 1..Len(emitted) : IsKebabId(emitted[k].metadata.component)

----------------------------------------------------------------------------
(* SpecSplit: _split_large_content on one prose content *)

ProseFragments == {<<"a">>, <<"b", "b", "b">>, <<".", " ">>, <<"!">>, <<" ">>, <<NL>>}
MaxProseFragments == 5
ProseInputs == Concats(ProseFragments, MaxProseFragments)
SplitSizes == {2, 4}

InitSplit ==
    /\ chunker \in {new_chunker(m, 150) : m \in SplitSizes}
    /\ op = "init"
    /\ arg \in ProseInputs
    /\ ret = None
    /\ emitted = <<>>
    /\ rag = None
    /\ locals = None

SplitLargeContent ==
    /\ op = "init"
    /\ op' = "split_large_content"
    /\ ret' = split_large_content(chunker, arg)
    /\ UNCHANGED <<chunker, arg, emitted, rag, locals>>

NextSplit == SplitLargeContent

SpecSplit == InitSplit /\ [][NextSplit]_vars

\* C3: every piece _split_large_content emits is at most max_chunk_size long,
\* unless it is one single sentence that alone is longer than max_chunk_size,
\* emitted whole and alone; a content of at most max_chunk_size is emitted as
\* exactly one piece equal to the input.
SplitPiecesBounded ==
    op = "split_large_content" =>
        LET max == chunker.max_chunk_size
            sentences == split_sentences(arg)
        IN  /\ \A k \in 1..Len(ret) :
                \/ Len(ret[k]) <= max
                \/ \E i \in 1..Len(sentences) :
                    /\ Len(sentences[i]) > max
                    /\ ret[k] = strip(sentences[i])
            /\ Len(arg) <= max => ret = <<arg>>

\* a content of several sentences was split, one piece packs two sentences and
\* another is a single sentence longer than max_chunk_size
SplitLongSentenceAlone ==
    /\ op = "split_large_content"
    /\ Len(ret) >= 2
    /\ \E k \in 1..Len(ret) : Len(ret[k]) > chunker.max_chunk_size
    /\ \E k \in 1..Len(ret) :
        /\ Len(ret[k]) <= chunker.max_chunk_size
        /\ Contains(ret[k], <<".", " ">>)

----------------------------------------------------------------------------
(* SpecCode: _process_code_content on one subsection content with a fence *)

CodeFragments == {Fence, <<"j", "s">>, <<NL>>, <<"a">>, <<" ">>}
MaxCodeFragments == 6

\* a complete block, then an opening fence that is never closed
UnclosedAfterBlock ==
    Fence \o <<NL, "a", NL>> \o Fence \o <<NL>> \o Fence \o <<"j", "s", NL, "a">>

\* _process_subsection calls _process_code_content only when _has_code_blocks
CodeInputs ==
    {c \in Concats(CodeFragments, MaxCodeFragments) \cup {UnclosedAfterBlock} :
        has_code_blocks(c)}

InitCode ==
    /\ chunker = new_chunker(1200, 150)
    /\ op = "init"
    /\ arg \in {[content |-> c, component_name |-> S_v_card, title |-> S_Usage] :
                    c \in CodeInputs}
    /\ ret = None
    /\ emitted = <<>>
    /\ rag = None
    /\ locals = None

ProcessCodeContent ==
    /\ op = "init"
    /\ op' = "process_code_content"
    /\ LET r == process_code_content(chunker, arg.content, arg.component_name, arg.title)
       IN  /\ chunker' = r.self
           /\ ret' = r.ret
    /\ UNCHANGED <<arg, emitted, rag, locals>>

NextCode == ProcessCodeContent

SpecCode == InitCode /\ [][NextCode]_vars

\* the complete fenced code blocks of a content: opening fence, optional
\* language tag, newline, body, newline, closing fence, found left to right
FencedBlocks(content) ==
    LET ms == CodeBlockMatches(content)
    IN  [i \in 1..Len(ms) |-> Slice(content, ms[i].start, ms[i].end - 1)]

\* C4: a content with N complete fenced code blocks gives exactly N chunks,
\* the k-th holding the k-th block complete and unmodified and no other block,
\* also when the content holds an unclosed opening fence besides.
OneChunkPerFencedBlock ==
    op = "process_code_content" =>
        LET blocks == FencedBlocks(arg.content)
        IN  /\ Len(ret) = Len(blocks)
            /\ \A k \in 1..Len(ret) :
                /\ Contains(ret[k].content, blocks[k])
                /\ Len(FencedBlocks(ret[k].content)) = 1

----------------------------------------------------------------------------
(* SpecSubsection: _process_subsection on one subsection *)

S_Examples == <<"E","x","a","m","p","l","e","s">>
S_Notes == <<"N","o","t","e","s">>

SubsectionTitles == {S_Usage, S_API, S_Examples, S_Notes}
SubsectionFragments == {Fence, <<NL>>, <<"a">>, <<"b", ".", " ">>}
MaxSubsectionFragments == 5

\* _extract_subsections returns stripped, non-empty contents
SubsectionContents ==
    {c \in Concats(SubsectionFragments, MaxSubsectionFragments) :
        c # <<>> /\ strip(c) = c}

InitSubsection ==
    /\ chunker \in {new_chunker(m, 150) : m \in {4, 1200}}
    /\ op = "init"
    /\ arg \in {[subsection |-> [title |-> t, content |-> c],
                 component_name |-> S_v_card] :
                    t \in SubsectionTitles, c \in SubsectionContents}
    /\ ret = None
    /\ emitted = <<>>
    /\ rag = None
    /\ locals = None

ProcessSubsection ==
    /\ op = "init"
    /\ op' = "process_subsection"
    /\ LET r == process_subsection(chunker, arg.subsection, arg.component_name)
       IN  /\ chunker' = r.self
           /\ ret' = r.ret
    /\ UNCHANGED <<arg, emitted, rag, locals>>

NextSubsection == ProcessSubsection

SpecSubsection == InitSubsection /\ [][NextSubsection]_vars

\* C7: every chunk made from a subsection carries as metadata.content_type
\* what the Content Classifier returns for the title and content of the
\* subsection, on the text path and on the code path.
ContentTypeIsClassifierOutput ==
    op = "process_subsection" =>
        \A k \in 1..Len(ret) :
            ret[k].metadata.content_type =
                classify_content_type(arg.subsection.title, arg.subsection.content)

----------------------------------------------------------------------------
(* SpecSections: _extract_component_sections on one document *)

DocFragments ==
    {<<"#", "#", " ", "A", "b">>, <<"#", "#", " ", "A", "b", NL>>, <<"x", NL>>,
     <<"-", "-", "-", NL>>, <<" ">>, <<"x">>}
MaxDocFragments == 5
DocInputs == Concats(DocFragments, MaxDocFragments)

InitSections ==
    /\ chunker = new_chunker(1200, 150)
    /\ op = "init"
    /\ arg \in DocInputs
    /\ ret = None
    /\ emitted = <<>>
    /\ rag = None
    /\ locals = None

ExtractComponentSections ==
    /\ op = "init"
    /\ op' = "extract_component_sections"
    /\ ret' = extract_component_sections(arg)
    /\ UNCHANGED <<chunker, arg, emitted, rag, locals>>

NextSections == ExtractComponentSections

SpecSections == InitSections /\ [][NextSections]_vars

\* the document put together again: the text before the first heading, then
\* for each matched heading its matched text and the content of its section
RECURSIVE Reassembled(_, _, _, _)
Reassembled(doc, ms, sections, k) ==
    IF k > Len(ms) THEN <<>>
    ELSE Slice(doc, ms[k].start, ms[k].end - 1) \o sections[k].content
         \o Reassembled(doc, ms, sections, k + 1)

\* C5: there is one section per matched component heading, in document order;
\* the content of a section is the text from the end of its heading to the
\* start of the next matched heading (to the end of the document for the
\* last), so that a heading without body has the empty content, nothing is
\* omitted or duplicated, and the text before the first heading is in no
\* section.
SectionsPartitionDocument ==
    op = "extract_component_sections" =>
        LET ms == ComponentMatches(arg)
            n == Len(ms)
        IN  /\ Len(ret) = n
            /\ \A k \in 1..n :
                /\ ret[k].title = strip(Slice(arg, ms[k].gs, ms[k].ge))
                /\ ret[k].content =
                      Slice(arg, ms[k].end,
                            IF k < n THEN ms[k + 1].start - 1 ELSE Len(arg))
                /\ k < n => ms[k].end <= ms[k + 1].start
            /\ n > 0 =>
                  Slice(arg, 1, ms[1].start - 1) \o Reassembled(arg, ms, ret, 1) = arg

\* two sections were found in a document that has text before the first
\* heading, a body under it, and ends with a heading without a newline
SectionsWithBareLastHeading ==
    /\ op = "extract_component_sections"
    /\ Len(ret) = 2
    /\ ComponentMatches(arg)[1].start > 1
    /\ ret[1].content # <<>>
    /\ ret[2].content = <<>>
    /\ arg[Len(arg)] # NL

----------------------------------------------------------------------------
(* SpecClassify: _classify_content_type on one title and content *)

S_Reference == <<"R","e","f","e","r","e","n","c","e">>
S_Example == <<"E","x","a","m","p","l","e">>
S_Random == <<"R","a","n","d","o","m">>
S_Slots == <<"S","l","o","t","s">>
S_Events == <<"E","v","e","n","t","s">>
S_Props == <<"P","r","o","p","s">>
S_no_code_here == <<"n","o"," ","c","o","d","e"," ","h","e","r","e">>
S_plain_text == <<"p","l","a","i","n"," ","t","e","x","t">>
S_code_block == Fence \o <<"j", "s", NL, "c", "o", "d", "e", NL>> \o Fence

TitleWords ==
    {S_API, S_Reference, S_Usage, S_Example, S_Examples, S_Random, S_Notes,
     S_Slots, S_Events, S_Props}
MaxTitleWords == 2
ClassifierTitles == Phrases(TitleWords, MaxTitleWords)
ClassifierContents == {S_no_code_here, S_plain_text, S_code_block}

InitClassify ==
    /\ chunker = new_chunker(1200, 150)
    /\ op = "init"
    /\ arg \in {[title |-> t, content |-> c] :
                    t \in ClassifierTitles, c \in ClassifierContents}
    /\ ret = None
    /\ emitted = <<>>
    /\ rag = None
    /\ locals = None

ClassifyContentType ==
    /\ op = "init"
    /\ op' = "classify_content_type"
    /\ ret' = classify_content_type(arg.title, arg.content)
    /\ UNCHANGED <<chunker, arg, emitted, rag, locals>>

NextClassify == ClassifyContentType

SpecClassify == InitClassify /\ [][NextClassify]_vars

Mentions(title, word) == Contains(lower(title), word)

\* the rules of the classifier in their order: which of them fire
RuleFires(title, content) ==
    << Mentions(title, S_api) \/ Mentions(title, S_prop),
       Mentions(title, S_usage),
       Mentions(title, S_example) \/ has_code_blocks(content),
       Mentions(title, S_slot),
       Mentions(title, S_event),
       TRUE >>

RuleLabels ==
    <<"api_reference", "usage_guide", "code_example", "slots_reference",
      "events_reference", "documentation">>

ClassifiedAs(title, content, label) ==
    arg = [title |-> title, content |-> content] => ret = label

\* C6: the classifier returns the label of the first rule that fires, in the
\* order api or prop, usage, example or code block, slot, event, otherwise
\* documentation; so API Reference without code is api_reference, Usage and
\* Usage Example with a code block are usage_guide, Examples with a code
\* block is code_example and Random Notes of plain text is documentation.
ClassifierFirstMatchWins ==
    op = "classify_content_type" =>
        LET fires == RuleFires(arg.title, arg.content)
            first == CHOOSE i \in 1..6 : fires[i] /\ \A j \in 1..(i - 1) : ~fires[j]
        IN  /\ ret = RuleLabels[first]
            /\ ClassifiedAs(S_API \o <<" ">> \o S_Reference, S_no_code_here, "api_reference")
            /\ ClassifiedAs(S_Usage, S_code_block, "usage_guide")
            /\ ClassifiedAs(S_Usage \o <<" ">> \o S_Example, S_code_block, "usage_guide")
            /\ ClassifiedAs(S_Examples, S_code_block, "code_example")
            /\ ClassifiedAs(S_Random \o <<" ">> \o S_Notes, S_plain_text, "documentation")

\* Usage Example with a code block has been classified
UsageExampleClassified ==
    /\ op = "classify_content_type"
    /\ arg = [title |-> S_Usage \o <<" ">> \o S_Example, content |-> S_code_block]

----------------------------------------------------------------------------
(* SpecQuery: analyze_query on one query *)

S_v_btn == <<"v","-","b","t","n">>
S_color == <<"c","o","l","o","r">>
S_props == <<"p","r","o","p","s">>
S_button == <<"b","u","t","t","o","n">>
S_DataTable == <<"D","a","t","a","T","a","b","l","e">>
S_col == <<"c","o","l">>

QueryWords == {S_v_btn, S_color, S_props, S_button, S_DataTable, S_example}
MaxQueryWords == 3
\* component_tests of test_component_detection: a query and the components
\* it is expected to detect
ComponentTests == <<
    [query |-> <<"H","o","w"," ","t","o"," ","u","s","e"," ","v","-","b","t","n","?">>,
     expected |-> {<<"v","-","b","t","n">>}],
    [query |-> <<"v","-","d","a","t","a","-","t","a","b","l","e"," ","w","i","t","h"," ","v","-","t","e","x","t","-","f","i","e","l","d">>,
     expected |-> {<<"v","-","d","a","t","a","-","t","a","b","l","e">>, <<"v","-","t","e","x","t","-","f","i","e","l","d">>}],
    [query |-> <<"V","C","a","r","d"," ","e","l","e","v","a","t","i","o","n"," ","p","r","o","p","e","r","t","y">>,
     expected |-> {<<"v","-","c","a","r","d">>}],
    [query |-> <<"A","p","p","B","a","r"," ","n","a","v","i","g","a","t","i","o","n"," ","s","e","t","u","p">>,
     expected |-> {<<"v","-","a","p","p","-","b","a","r">>}],
    [query |-> <<"b","u","t","t","o","n"," ","s","t","y","l","i","n","g">>,
     expected |-> {}],
    [query |-> <<"D","a","t","a","T","a","b","l","e"," ","s","o","r","t","i","n","g">>,
     expected |-> {<<"v","-","d","a","t","a","-","t","a","b","l","e">>}] >>

\* test_scenarios of demo_supercharged_rag: a query and its expected_type
DemoScenarios == <<
    [query |-> <<"v","-","b","t","n"," ","c","o","l","o","r"," ","a","n","d"," ","s","i","z","e"," ","p","r","o","p","s">>,
     expected_type |-> "api_reference"],
    [query |-> <<"v","-","c","a","r","d"," ","w","i","t","h"," ","e","l","e","v","a","t","i","o","n"," ","e","x","a","m","p","l","e">>,
     expected_type |-> "code_example"],
    [query |-> <<"c","u","s","t","o","m"," ","t","h","e","m","e"," ","c","o","l","o","r","s"," ","a","n","d"," ","v","a","r","i","a","n","t","s">>,
     expected_type |-> "styling"],
    [query |-> <<"v","-","d","a","t","a","-","t","a","b","l","e"," ","s","o","r","t","i","n","g"," ","n","o","t"," ","w","o","r","k","i","n","g">>,
     expected_type |-> "troubleshooting"],
    [query |-> <<"h","o","w"," ","t","o"," ","c","r","e","a","t","e"," ","r","e","s","p","o","n","s","i","v","e"," ","n","a","v","i","g","a","t","i","o","n">>,
     expected_type |-> "component_usage"] >>

Queries == Phrases(QueryWords, MaxQueryWords)

\* the query of the Query Analyzer scenario
VBtnColorProps == S_v_btn \o <<" ">> \o S_color \o <<" ">> \o S_props

InitQuery ==
    /\ chunker = None
    /\ op = "init"
    /\ arg \in Queries
    /\ ret = None
    /\ emitted = <<>>
    /\ rag = None
    /\ locals = None

AnalyzeQuery ==
    /\ op = "init"
    /\ op' = "analyze_query"
    /\ \E components \in extract_components(arg) :
          ret' = analyze_query(arg, components)
    /\ UNCHANGED <<chunker, arg, emitted, rag, locals>>

NextQuery == AnalyzeQuery

SpecQuery == InitQuery /\ [][NextQuery]_vars

VBtnColorPropsAnalyzed == op = "analyze_query" /\ arg = VBtnColorProps

\* the keywords of the i-th intent category that occur in the lower-cased query
MatchedIntentKeywords(query, i) ==
    {IntentKeywords[i].keywords[k] : k \in
        {k \in 1..Len(IntentKeywords[i].keywords) :
            Contains(lower(query), IntentKeywords[i].keywords[k])}}

\* C9: the analysis of v-btn color props has v-btn among its components and
\* the intent api_reference: of the api_reference keywords only props occurs,
\* which gives the single highest score, 1/9, above the threshold 0.1.
VBtnColorPropsIsApiReference ==
    VBtnColorPropsAnalyzed =>
        /\ \E i \in 1..Len(ret.components) : ret.components[i] = S_v_btn
        /\ ret.query_type = "api_reference"
        /\ IntentKeywords[1].query_type = "api_reference"
        /\ MatchedIntentKeywords(arg, 1) = {S_props}
        /\ ret.intent_confidence = Ratio(1, 9)
        /\ 10 * ret.intent_confidence.num > ret.intent_confidence.den
        /\ \A i \in 2..Len(IntentKeywords) :
              Cardinality(MatchedIntentKeywords(arg, i)) * 9
                  < Len(IntentKeywords[i].keywords)

\* C10 as stated: the analysis of v-btn color props has an empty keyword list.
VBtnColorPropsNoKeywords ==
    VBtnColorPropsAnalyzed => ret.keywords = <<>>

\* C10 amended: the analysis of v-btn color props has the keyword list [col]:
\* color is not in the vocabulary, but the vocabulary is matched by substring
\* and the layout word col is a substring of color; no other word of the
\* vocabulary occurs in the query.
VBtnColorPropsKeywordCol ==
    VBtnColorPropsAnalyzed =>
        /\ ret.keywords = << S_col >>
        /\ \A k \in 1..Len(VuetifyKeywords) : VuetifyKeywords[k] # S_color
        /\ Contains(S_color, S_col)

\* the analysis of v-btn color props found a keyword in the query
VBtnColorPropsKeywordFound ==
    VBtnColorPropsAnalyzed /\ ret.keywords # <<>>


----------------------------------------------------------------------------
(* SpecScenarios: analyze_query on the queries of the component-detection
   test and of the demo *)

ScenarioQueries ==
    {ComponentTests[i].query : i \in 1..Len(ComponentTests)}
    \cup {DemoScenarios[i].query : i \in 1..Len(DemoScenarios)}

InitScenarios ==
    /\ chunker = None
    /\ op = "init"
    /\ arg \in ScenarioQueries
    /\ ret = None
    /\ emitted = <<>>
    /\ rag = None
    /\ locals = None

NextScenarios == AnalyzeQuery

SpecScenarios == InitScenarios /\ [][NextScenarios]_vars

(* Component detection *)

\* the components of the analysis, as a set
DetectedComponents == {ret.components[i] : i \in 1..Len(ret.components)}

\* C11: for each query of the component-detection test that expects
\* components, the expected identifiers are among the detected ones; so VCard
\* elevation property gives v-card and AppBar navigation setup gives v-app-bar.
ComponentTestsDetected ==
    op = "analyze_query" =>
        \A i \in 1..Len(ComponentTests) :
            ComponentTests[i].query = arg =>
                ComponentTests[i].expected \subseteq DetectedComponents

\* only lower-case letters and spaces: no v- token and no CamelCase word
OrdinaryLowerCase(query) ==
    \A i \in 1..Len(query) : query[i] \in LowerSet \cup {" "}

\* C12: a query of ordinary lower-case words, such as button styling, has an
\* empty component list and no component filter is suggested for it.
LowerCaseWordsGiveNoComponents ==
    (op = "analyze_query" /\ OrdinaryLowerCase(arg)) =>
        /\ ret.components = <<>>
        /\ ret.suggested_filters.component = None

\* C13: each demo scenario is classified as its expected_type.
DemoScenariosClassified ==
    op = "analyze_query" =>
        \A i \in 1..Len(DemoScenarios) :
            DemoScenarios[i].query = arg =>
                ret.query_type = DemoScenarios[i].expected_type


----------------------------------------------------------------------------
(* simple_rag_interface.py: VuetifyRAG *)

\* dict.get(key, default) on a key that may be absent
get(value, default) == IF value = None THEN default ELSE value[1]

\* VuetifyRAG(): openai_client is None or the client created from the API key
new_rag(openai_client) == [openai_client |-> openai_client]

\* search.  store is what collection.query did with the query text,
\* n_results and the where clause: it raised, or it returned hits, each a
\* document, its metadata and its distance.  A similarity is 1 - distance;
\* distances and similarities are counted in thousandths.
search(self, query_text, n_results, component_filter, store) ==
    IF store.raised THEN <<>>
    ELSE [i \in 1..Len(store.hits) |->
            [content |-> store.hits[i].document,
             metadata |-> store.hits[i].metadata,
             similarity_score |-> 1000 - store.hits[i].distance,
             distance |-> store.hits[i].distance]]

\* the digits of the format specs .2f and .3f for a number of thousandths
\* (no score of the model lies half-way between two hundredths)
Fixed(score, scale, digits) ==
    LET a == IF score < 0 THEN -score ELSE score
        n == (a + (scale \div 2)) \div scale
        unit == 1000 \div scale
    IN  (IF score < 0 THEN <<"-">> ELSE <<>>)
        \o Decimal(n \div unit) \o <<".">>
        \o [k \in 1..digits |->
              DigitSeq[(((n % unit) \div (10 ^ (digits - k))) % 10) + 1]]

Format2f(score) == Fixed(score, 10, 2)
Format3f(score) == Fixed(score, 1, 3)

S_Unknown == <<"U","n","k","n","o","w","n">>
S_General == <<"G","e","n","e","r","a","l">>
S_documentation == <<"d","o","c","u","m","e","n","t","a","t","i","o","n">>
S_no_docs_for_query == <<"N","o"," ","r","e","l","e","v","a","n","t"," ","d","o","c","u","m","e","n","t","a","t","i","o","n"," ","f","o","u","n","d"," ","f","o","r"," ","y","o","u","r"," ","q","u","e","r","y",".">>
S_no_docs == <<"N","o"," ","r","e","l","e","v","a","n","t"," ","d","o","c","u","m","e","n","t","a","t","i","o","n"," ","f","o","u","n","d",".">>
S_based_on == <<"B","a","s","e","d"," ","o","n"," ","t","h","e"," ","V","u","e","t","i","f","y"," ","d","o","c","u","m","e","n","t","a","t","i","o","n",":",NL>>
S_relevance == <<" ","[","r","e","l","e","v","a","n","c","e",":"," ">>
S_ellipsis == <<".", ".", ".">>
SummaryLimit == 300

\* content[:300] + "..." if len(content) > 300 else content
summary_of(content) ==
    IF Len(content) > SummaryLimit
    THEN SubSeq(content, 1, SummaryLimit) \o S_ellipsis
    ELSE content

\* the three lines _format_simple_response appends for the i-th result
result_lines(i, result) ==
    << Decimal(i) \o <<".", " ">>
         \o get(result.metadata.component, S_Unknown) \o <<" ", "-", " ">>
         \o get(result.metadata.subsection, S_General) \o <<" ", "(">>
         \o get(result.metadata.content_type, S_documentation) \o <<")">>
         \o S_relevance \o Format2f(result.similarity_score) \o <<"]", ":">>,
       <<" ", " ", " ">> \o summary_of(result.content),
       <<>> >>

\* the loop of lines 160-173 from search_results[i] on
RECURSIVE ResponseParts(_, _, _)
ResponseParts(search_results, i, response_parts) ==
    IF i > Len(search_results) THEN response_parts
    ELSE ResponseParts(search_results, i + 1,
                       response_parts \o result_lines(i, search_results[i]))

format_simple_response(search_results) ==
    IF search_results = <<>> THEN S_no_docs_for_query
    ELSE join(<<NL>>, ResponseParts(search_results, 1, <<S_based_on>>))

S_source == <<"[","S","o","u","r","c","e"," ">>

\* the context of the prompt: one block per result (lines 106-115)
context_of(search_results) ==
    join(<<NL, NL>>,
         [i \in 1..Len(search_results) |->
            S_source \o Decimal(i) \o <<":", " ">>
            \o get(search_results[i].metadata.component, S_Unknown)
            \o <<" ", "-", " ">>
            \o get(search_results[i].metadata.subsection, S_General)
            \o <<"]", NL>> \o search_results[i].content])

\* generate_response.  completion is what chat.completions.create did: it
\* raised, or it returned a message with this content.  calls lists the
\* requests sent to the completion service.
generate_response(self, query_text, search_results, completion) ==
    IF self.openai_client = None
    THEN [ret |-> format_simple_response(search_results), calls |-> <<>>]
    ELSE LET request == [model |-> "gpt-3.5-turbo",
                         context |-> context_of(search_results),
                         question |-> query_text]
         IN  IF completion.raised
             THEN [ret |-> format_simple_response(search_results),
                   calls |-> <<request>>]
             ELSE [ret |-> completion.content, calls |-> <<request>>]

\* the sources of a result dict (lines 203-211): absent metadata keys give None
sources_of(search_results) ==
    [i \in 1..Len(search_results) |->
        [component |-> search_results[i].metadata.component,
         section |-> search_results[i].metadata.subsection,
         type |-> search_results[i].metadata.content_type,
         similarity |-> Format3f(search_results[i].similarity_score)]]

\* VuetifyRAG.query
rag_query(self, user_query, n_results, component_filter, store, completion) ==
    LET answer(search_results) ==
            IF search_results = <<>>
            THEN [ret |-> [query |-> user_query,
                           response |-> S_no_docs,
                           sources |-> <<>>],
                  calls |-> <<>>]
            ELSE LET result(g) ==
                        [ret |-> [query |-> user_query,
                                  response |-> g.ret,
                                  sources |-> sources_of(search_results)],
                         calls |-> g.calls]
                 IN  result(generate_response(self, user_query,
                                              search_results, completion))
    IN  answer(search(self, user_query, n_results, component_filter, store))


----------------------------------------------------------------------------
(* enhanced-query-processor.py: EnhancedVuetifyRAG *)

\* results with result inserted after every entry of at least its similarity
RECURSIVE InsertBySimilarity(_, _)
InsertBySimilarity(sorted, result) ==
    IF sorted = <<>> THEN <<result>>
    ELSE IF Head(sorted).similarity_score >= result.similarity_score
         THEN <<Head(sorted)>> \o InsertBySimilarity(Tail(sorted), result)
         ELSE <<result>> \o sorted

\* results.sort(key=similarity_score, reverse=True): a stable sort, entries
\* of equal similarity keep their order
RECURSIVE sort_by_similarity(_)
sort_by_similarity(results) ==
    IF results = <<>> THEN <<>>
    ELSE InsertBySimilarity(sort_by_similarity(SubSeq(results, 1, Len(results) - 1)),
                            results[Len(results)])

\* the loop of lines 324-328 from results[k] on
RECURSIVE DeduplicateLoop(_, _, _, _)
DeduplicateLoop(results, k, seen_ids, unique_results) ==
    IF k > Len(results) THEN unique_results
    ELSE LET chunk_id == results[k].metadata.chunk_id
         IN  IF chunk_id # None /\ chunk_id[1] # <<>> /\ chunk_id[1] \notin seen_ids
             THEN DeduplicateLoop(results, k + 1, seen_ids \cup {chunk_id[1]},
                                  Append(unique_results, results[k]))
             ELSE DeduplicateLoop(results, k + 1, seen_ids, unique_results)

\* _deduplicate_results
deduplicate_results(results) ==
    DeduplicateLoop(sort_by_similarity(results), 1, {}, <<>>)

\* unique_results[:n_results]
first_n(list, n) == SubSeq(list, 1, IF Len(list) < n THEN Len(list) ELSE n)

\* _generate_contextual_response without the except branch of lines 408-410
generate_contextual_response_unguarded(self, query_text, results, analysis, completion) ==
    IF self.openai_client = None
    THEN [ret |-> format_simple_response(results), calls |-> <<>>]
    ELSE [ret |-> completion.content, calls |-> <<"request">>]

\* _generate_contextual_response: as generate_response, with a prompt that
\* also names the query type, the components and the keywords
generate_contextual_response(self, query_text, results, analysis, completion) ==
    IF self.openai_client = None
    THEN [ret |-> format_simple_response(results), calls |-> <<>>]
    ELSE LET request == [model |-> "gpt-3.5-turbo",
                         query_type |-> analysis.query_type,
                         components |-> analysis.components,
                         keywords |-> analysis.keywords,
                         context |-> context_of(results),
                         question |-> query_text]
         IN  IF completion.raised
             THEN [ret |-> format_simple_response(results), calls |-> <<request>>]
             ELSE [ret |-> completion.content, calls |-> <<request>>]

ComponentSearchResults == 3

\* the loop of lines 271-277 from components[k] on; stores[k] is what the
\* store did on the search for components[k]
RECURSIVE ComponentSearchLoop(_, _, _, _, _, _)
ComponentSearchLoop(self, user_query, components, stores, k, all_results) ==
    IF k > Len(components) THEN all_results
    ELSE ComponentSearchLoop(self, user_query, components, stores, k + 1,
            all_results \o search(self, user_query, ComponentSearchResults,
                                  Some(components[k]), stores[k]))

\* smart_query.  components is the list _extract_components returned, store
\* what the store did on the stage 1 search and stores what it did on the
\* searches of stage 2.
smart_query(self, user_query, n_results, components, store, stores, completion) ==
    LET analysed(analysis) ==
        LET stage1(enhanced_results) ==
            LET accumulated(all_results) ==
                LET answered(sorted, final_results) ==
                    LET result(g) ==
                        [ret |-> [query |-> user_query,
                                  analysis |->
                                     [type |-> analysis.query_type,
                                      components |-> analysis.components,
                                      keywords |-> analysis.keywords,
                                      confidence |-> analysis.intent_confidence],
                                  response |-> g.ret,
                                  sources |-> sources_of(final_results),
                                  search_strategy |-> "multi_stage_intelligent"],
                         locals |-> [all_results |-> sorted,
                                     final_results |-> final_results],
                         calls |-> g.calls]
                    IN  result(generate_contextual_response(
                                   self, user_query, final_results, analysis,
                                   completion))
                IN  answered(sort_by_similarity(all_results),
                             first_n(deduplicate_results(all_results), n_results))
            IN  accumulated(
                    IF analysis.components # <<>> /\ Len(enhanced_results) < n_results
                    THEN ComponentSearchLoop(self, user_query, analysis.components,
                                             stores, 1, enhanced_results)
                    ELSE enhanced_results)
        IN  stage1(search(self, analysis.enhanced_query, n_results,
                          analysis.suggested_filters.component, store))
    IN  analysed(analyze_query(user_query, components))


----------------------------------------------------------------------------
(* SpecRAG: one call of VuetifyRAG.search, generate_response or query, or of
   EnhancedVuetifyRAG.smart_query, against a vector store and a completion
   service that answer or fail *)

S_c1 == <<"c","1">>
S_c2 == <<"c","2">>
S_Use_the_props == <<"U","s","e"," ","t","h","e"," ","p","r","o","p","s",".">>
S_template == <<"<","t","e","m","p","l","a","t","e",">">>
S_usage_of_card == <<"u","s","a","g","e"," ","o","f"," ","c","a","r","d">>
S_api_reference == <<"a","p","i","_","r","e","f","e","r","e","n","c","e">>
S_usage_guide == <<"u","s","a","g","e","_","g","u","i","d","e">>

\* a document one character longer than the summary of the fallback text
LongDocument == S_template \o [i \in 1..(SummaryLimit + 1 - Len(S_template)) |-> "x"]

\* the chunks of the collection: one with all metadata keys, one with a long
\* document and without subsection and content type, one without chunk_id
StoredChunks ==
    { [document |-> S_Use_the_props,
       metadata |-> [component |-> Some(S_v_btn), subsection |-> Some(S_API),
                     content_type |-> Some(S_api_reference),
                     chunk_id |-> Some(S_c1)]],
      [document |-> LongDocument,
       metadata |-> [component |-> Some(S_v_btn), subsection |-> None,
                     content_type |-> None, chunk_id |-> Some(S_c2)]],
      [document |-> S_usage_of_card,
       metadata |-> [component |-> Some(S_v_card), subsection |-> Some(S_Usage),
                     content_type |-> Some(S_usage_guide),
                     chunk_id |-> None]] }

\* distances in thousandths; the last one gives a negative similarity
Distances == {100, 250, 1250}

\* the most hits one call of the store returns
MaxHits == 2

\* the hit lists of at most n chunks of C: distinct chunks, nearest first
RECURSIVE HitLists(_, _)
HitLists(C, n) ==
    IF n = 0 THEN {<<>>}
    ELSE LET P == HitLists(C, n - 1)
         IN  P \cup
             { Append(p, [document |-> c.document, metadata |-> c.metadata,
                          distance |-> d]) :
                 p \in {q \in P : Len(q) = n - 1},
                 c \in C, d \in Distances }

WellFormedHits(hits) ==
    \A i, j \in 1..Len(hits) :
        i < j => /\ hits[i].distance <= hits[j].distance
                 /\ hits[i].metadata # hits[j].metadata

StoreRaised == [raised |-> TRUE, hits |-> <<>>]

\* what collection.query can do for n_results and the where clause search
\* builds from component_filter (none when the filter is None or empty)
StoreAnswers(n_results, component_filter) ==
    LET C == IF component_filter = None \/ component_filter[1] = <<>>
             THEN StoredChunks
             ELSE {c \in StoredChunks : c.metadata.component = component_filter}
        n == IF n_results < MaxHits THEN n_results ELSE MaxHits
    IN  {StoreRaised} \cup
        {[raised |-> FALSE, hits |-> h] : h \in {l \in HitLists(C, n) : WellFormedHits(l)}}

\* the store answers of the stage 2 searches, one per component
RECURSIVE StageAnswers(_, _)
StageAnswers(components, k) ==
    IF k > Len(components) THEN {<<>>}
    ELSE { <<a>> \o rest :
             a \in StoreAnswers(ComponentSearchResults, Some(components[k])),
             rest \in StageAnswers(components, k + 1) }

S_Use_v_btn == <<"U","s","e"," ","v","-","b","t","n"," ","l","i","k","e"," ","t","h","i","s",".">>

\* what chat.completions.create can do; None when no client is configured
Completions(self) ==
    IF self.openai_client = None THEN {None}
    ELSE { [raised |-> TRUE, content |-> <<>>],
           [raised |-> FALSE, content |-> S_Use_v_btn] }

S_question == <<"?">>
RagQueries == {S_v_btn, S_question, S_v_btn \o <<" ">> \o S_props}
DefaultNResults == 5
NResults == {1, 2, DefaultNResults}
ComponentFilters == {None, Some(<<>>), Some(S_v_btn), Some(S_v_card)}

InitRAG ==
    /\ chunker = None
    /\ op = "init"
    /\ arg = None
    /\ ret = None
    /\ emitted = <<>>
    /\ rag \in {new_rag(None), new_rag(Some("client"))}
    /\ locals = None

VuetifySearch ==
    /\ op = "init"
    /\ \E query_text \in RagQueries, n_results \in NResults,
          component_filter \in ComponentFilters :
       \E store \in StoreAnswers(n_results, component_filter) :
          /\ arg' = [query |-> query_text, n_results |-> n_results,
                     component_filter |-> component_filter, store |-> store]
          /\ ret' = search(rag, query_text, n_results, component_filter, store)
    /\ op' = "search"
    /\ UNCHANGED <<chunker, emitted, rag, locals>>

GenerateResponse ==
    /\ op = "init"
    /\ \E query_text \in RagQueries, store \in StoreAnswers(MaxHits, None),
          completion \in Completions(rag) :
       \E search_results \in {search(rag, query_text, MaxHits, None, store)},
          r \in {generate_response(rag, query_text,
                                   search(rag, query_text, MaxHits, None, store),
                                   completion)} :
          /\ arg' = [query |-> query_text, search_results |-> search_results,
                     completion |-> completion]
          /\ ret' = r.ret
          /\ locals' = [calls |-> r.calls]
    /\ op' = "generate_response"
    /\ UNCHANGED <<chunker, emitted, rag>>

Query ==
    /\ op = "init"
    /\ \E user_query \in RagQueries, n_results \in NResults,
          component_filter \in ComponentFilters, completion \in Completions(rag) :
       \E store \in StoreAnswers(n_results, component_filter) :
       \E r \in {rag_query(rag, user_query, n_results, component_filter,
                           store, completion)} :
          /\ arg' = [query |-> user_query, n_results |-> n_results,
                     component_filter |-> component_filter, store |-> store,
                     completion |-> completion]
          /\ ret' = r.ret
          /\ locals' = [calls |-> r.calls]
    /\ op' = "query"
    /\ UNCHANGED <<chunker, emitted, rag>>

SmartQuery ==
    /\ op = "init"
    /\ \E user_query \in RagQueries, n_results \in NResults,
          completion \in Completions(rag) :
       \E components \in extract_components(user_query) :
       \E store \in StoreAnswers(n_results,
                      IF components # <<>> THEN Some(components[1]) ELSE None) :
       \E stores \in (IF components # <<>> /\ Len(store.hits) < n_results
                      THEN StageAnswers(components, 1) ELSE {<<>>}) :
       \E r \in {smart_query(rag, user_query, n_results, components, store,
                             stores, completion)} :
          /\ arg' = [query |-> user_query, n_results |-> n_results,
                     store |-> store, stores |-> stores,
                     completion |-> completion]
          /\ ret' = r.ret
          /\ locals' = [all_results |-> r.locals.all_results,
                        final_results |-> r.locals.final_results,
                        calls |-> r.calls]
    /\ op' = "smart_query"
    /\ UNCHANGED <<chunker, emitted, rag>>

NextRAG == VuetifySearch \/ GenerateResponse \/ Query \/ SmartQuery

SpecRAG == InitRAG /\ [][NextRAG]_vars


----------------------------------------------------------------------------
(* Claims about the responses of VuetifyRAG and EnhancedVuetifyRAG *)

\* no answer of the completion service: no client, or the call raised
NoCompletion == rag.openai_client = None \/ arg.completion.raised

\* text names, for every result, its component, subsection and content type
\* (or their defaults), its similarity with two decimals, and its content cut
\* after SummaryLimit characters
ShowsEveryResult(text, results) ==
    \A i \in 1..Len(results) :
        /\ Contains(text, get(results[i].metadata.component, S_Unknown))
        /\ Contains(text, get(results[i].metadata.subsection, S_General))
        /\ Contains(text, get(results[i].metadata.content_type, S_documentation))
        /\ Contains(text, Format2f(results[i].similarity_score))
        /\ IF Len(results[i].content) > SummaryLimit
           THEN /\ Contains(text, SubSeq(results[i].content, 1, SummaryLimit)
                                   \o S_ellipsis)
                /\ ~Contains(text, SubSeq(results[i].content, 1, SummaryLimit + 1))
           ELSE Contains(text, results[i].content)

\* C14: without a client, or when the completion call raises,
\* generate_response and the response step of smart_query return the text of
\* _format_simple_response for the same results; that text is determined by
\* the results alone and shows each one's component, subsection, content type,
\* similarity and at most SummaryLimit characters of its content; without a
\* client the completion service is never called
FallbackWithoutCompletion ==
    /\ (op = "generate_response" /\ NoCompletion) =>
          /\ ret = format_simple_response(arg.search_results)
          /\ ShowsEveryResult(ret, arg.search_results)
    /\ (op = "smart_query" /\ NoCompletion) =>
          /\ ret.response = format_simple_response(locals.final_results)
          /\ ret.response = generate_response(rag, <<>>, locals.final_results,
                                              arg.completion).ret
          /\ ShowsEveryResult(ret.response, locals.final_results)
    /\ (op \in {"generate_response", "smart_query"} /\ rag.openai_client = None) =>
          locals.calls = <<>>

\* smart_query falls back after a completion call that raised, with a result
\* whose content is longer than the summary
FallbackAfterRaisedCompletion ==
    /\ op = "smart_query"
    /\ rag.openai_client # None
    /\ arg.completion.raised
    /\ Len(locals.calls) = 1
    /\ \E i \in 1..Len(locals.final_results) :
          Len(locals.final_results[i].content) > SummaryLimit


NoDocumentationMessages == {S_no_docs, S_no_docs_for_query}

\* C15: when every search of a query returns no hit, query and smart_query
\* return empty sources and the no-relevant-documentation message, with or
\* without a client
ZeroHitsGiveNoDocumentationMessage ==
    /\ (op = "query" /\ arg.store.hits = <<>>) =>
          /\ ret.sources = <<>>
          /\ ret.response \in NoDocumentationMessages
    /\ (op = "smart_query" /\ locals.all_results = <<>>) =>
          /\ ret.sources = <<>>
          /\ ret.response \in NoDocumentationMessages

\* C16: a failed call of the store is told apart from a search without hits:
\* search, query and smart_query do not return what they return for a store
\* that answered with no hits
StoreFailureSurfaced ==
    /\ (op = "search" /\ arg.store.raised) =>
          ret # search(rag, arg.query, arg.n_results, arg.component_filter,
                       [raised |-> FALSE, hits |-> <<>>])
    /\ (op = "query" /\ arg.store.raised) =>
          ret # rag_query(rag, arg.query, arg.n_results, arg.component_filter,
                          [raised |-> FALSE, hits |-> <<>>], arg.completion).ret
    /\ (op = "smart_query"
          /\ (arg.store.raised \/ \E k \in 1..Len(arg.stores) : arg.stores[k].raised)) =>
          ret # smart_query(rag, arg.query, arg.n_results, ret.analysis.components,
                            [raised |-> FALSE, hits |-> arg.store.hits],
                            [k \in 1..Len(arg.stores) |->
                                [raised |-> FALSE, hits |-> arg.stores[k].hits]],
                            arg.completion).ret


\* the chunk IDs among results, and the number of results without one
ChunkIdsOf(results) ==
    {results[k].metadata.chunk_id[1] :
        k \in {j \in 1..Len(results) : results[j].metadata.chunk_id # None}}
Unidentified(results) ==
    Cardinality({k \in 1..Len(results) : results[k].metadata.chunk_id = None})

----------------------------------------------------------------------------
(* cursor-api-server.py: the endpoints /health, /search and
   /component/{component_name} over the global rag_system *)

S_not_initialized == <<"R","A","G"," ","s","y","s","t","e","m"," ","n","o","t"," ","i","n","i","t","i","a","l","i","z","e","d">>
S_props_usage_examples == <<" ","p","r","o","p","s"," ","u","s","a","g","e"," ","e","x","a","m","p","l","e","s">>
S_properties == <<"p","r","o","p","e","r","t","i","e","s">>
S_Component == <<"C","o","m","p","o","n","e","n","t"," ">>
S_not_found == <<" ","n","o","t"," ","f","o","u","n","d">>

\* raise HTTPException(status_code, detail), as the response of the endpoint
HTTPException(status_code, detail) ==
    [status_code |-> status_code, detail |-> Some(detail), body |-> None]

\* a returned value, answered with status 200
Returned(body) == [status_code |-> 200, detail |-> None, body |-> Some(body)]

\* str(e) of a caught exception
str_of(e) == <<"str", e>>

\* the loop of lines 171-178 from result[i] on
RECURSIVE ComponentInfoLoop(_, _, _)
ComponentInfoLoop(result, i, info) ==
    IF i > Len(result) THEN info
    ELSE LET content == result[i].content
         IN  ComponentInfoLoop(result, i + 1,
                IF Contains(lower(content), S_props)
                   \/ Contains(lower(content), S_properties)
                THEN [info EXCEPT !.props = Append(<<","," ","c","o","n","t","e","n","t",")","]",NL," "," "," "," "," "," "," "," "," "," "," "," "," "," "," "," ","E","L","S","E"," ","I","F"," ","C","o","n","t","a","i","n","s","(","l","o","w","e","r","(","c","o","n","t","e","n","t",")",","," ","S","_","e","x","a","m","p","l","e",")",NL," "," "," "," "," "," "," "," "," "," "," "," "," "," "," "," "," "," "," "," "," "," "," "," ","\\","/"," ","C","o","n","t","a","i","n","s","(","c","o","n","t","e","n","t",","," ","S","_","t","e","m","p","l","a","t","e",")",NL," "," "," "," "," "," "," "," "," "," "," "," "," "," "," "," ","T","H","E","N"," ","[","i","n","f","o"," ","E","X","C","E","P","T"," ","!",".","e","x","a","m","p","l","e","s"," ","="," ","A","p","p","e","n","d","(">>, content)]
                ELSE IF Contains(lower(content), S_usage)
                THEN [info EXCEPT !.usage = content]
                ELSE info)

get_component_info(rag_system, component_name, store) ==
    IF rag_system = None
    THEN HTTPException(503, S_not_initialized)
    ELSE LET respond(result) ==
                 IF result = <<>>
                 THEN \* the HTTPException of line 164 is raised inside the
                      \* try and caught by the except of line 188
                      HTTPException(500,
                          str_of(HTTPException(404,
                              S_Component \o component_name \o S_not_found)))
                 ELSE LET info == ComponentInfoLoop(result, 1,
                                     [props |-> <<>>, examples |-> <<>>,
                                      usage |-> <<>>])
                      IN  Returned([component |-> component_name,
                                    props |-> first_n(info.props, 2),
                                    examples |-> first_n(info.examples, 3),
                                    usage |-> info.usage,
                                    found_chunks |-> Len(result)])
         IN  respond(search(rag_system[1],
                            component_name \o S_props_usage_examples,
                            DefaultNResults, Some(component_name), store))

health_check(rag_system) ==
    IF rag_system = None
    THEN HTTPException(503, S_not_initialized)
    ELSE Returned([status |-> "healthy", rag_system |-> "online"])

search_documentation(rag_system, q, limit, store, completion) ==
    IF rag_system = None
    THEN HTTPException(503, S_not_initialized)
    ELSE LET respond(result) ==
                 Returned([query |-> q,
                           results |->
                              [k \in 1..Len(result.sources) |->
                                  [content |-> S_ellipsis,
                                   component |-> result.sources[k].component,
                                   section |-> result.sources[k].section,
                                   similarity |-> result.sources[k].similarity]]])
         IN  respond(rag_query(rag_system[1], q, limit, None, store,
                               completion).ret)

S_v_chip == <<"v","-","c","h","i","p">>
ComponentNames == {S_v_btn, S_v_card, S_v_chip}

\* the module is loaded: rag_system = None
InitServer ==
    /\ chunker = None
    /\ op = "init"
    /\ arg = None
    /\ ret = None
    /\ emitted = <<>>
    /\ rag = None
    /\ locals = None

StartupEvent ==
    /\ rag = None
    /\ \E client \in {None, Some("client")} : rag' = Some(new_rag(client))
    /\ op' = "startup_event"
    /\ arg' = None
    /\ ret' = None
    /\ UNCHANGED <<chunker, emitted, locals>>

HealthCheck ==
    /\ op' = "health_check"
    /\ arg' = None
    /\ ret' = health_check(rag)
    /\ UNCHANGED <<chunker, emitted, rag, locals>>

SearchDocumentation ==
    /\ \E q \in RagQueries, limit \in NResults,
          completion \in (IF rag = None THEN {None} ELSE Completions(rag[1])) :
       \E store \in (IF rag = None THEN {None} ELSE StoreAnswers(limit, None)) :
          /\ arg' = [q |-> q, limit |-> limit, store |-> store,
                     completion |-> completion]
          /\ ret' = search_documentation(rag, q, limit, store, completion)
    /\ op' = "search_documentation"
    /\ UNCHANGED <<chunker, emitted, rag, locals>>

GetComponentInfo ==
    /\ \E component_name \in ComponentNames :
       \E store \in (IF rag = None THEN {None}
                     ELSE StoreAnswers(DefaultNResults, Some(component_name))) :
          /\ arg' = [component_name |-> component_name, store |-> store]
          /\ ret' = get_component_info(rag, component_name, store)
    /\ op' = "get_component_info"
    /\ UNCHANGED <<chunker, emitted, rag, locals>>

NextServer ==
    StartupEvent \/ HealthCheck \/ SearchDocumentation \/ GetComponentInfo

SpecServer == InitServer /\ [][NextServer]_vars

\* C18: /component/{name} answers 503 while rag_system is None, 404 when the
\* search for the component returns no chunk, and 500 only when the store
\* call of the search failed
ComponentNotFoundIs404 ==
    op = "get_component_info" =>
        /\ rag = None => ret.status_code = 503
        /\ (rag # None /\ search(rag[1], <<>>, DefaultNResults,
                                 Some(arg.component_name), arg.store) = <<>>
                       /\ ~arg.store.raised) =>
              ret.status_code = 404
        /\ (rag # None /\ ret.status_code = 500) => arg.store.raised


----------------------------------------------------------------------------
(* rag_analytics.py: RAGAnalytics.log_query and MonitoredRAG;
   integration-guide.py: SuperchargedVuetifyRAG.smart_query.
   A call either returns a value or raises; the analytics database holds the
   committed rows of query_logs. Clock readings (timestamp, response_time)
   are left out. *)

Return(value) == [raised |-> FALSE, value |-> Some(value)]
Raise == [raised |-> TRUE, value |-> None]

\* RAGAnalytics.__init__: an empty database
new_analytics == [query_logs |-> <<>>]

\* RAGAnalytics.log_query; sink_raised tells whether a statement of the
\* database fails, in which case nothing is committed and the error leaves
\* log_query
log_query(self, query_log, sink_raised) ==
    IF sink_raised
    THEN [self |-> self, raised |-> TRUE]
    ELSE [self |-> [self EXCEPT !.query_logs = Append(@, query_log)],
          raised |-> FALSE]

\* re.findall(r'v-[a-z-]+', s) from index i on
IsTagChar(c) == c \in LowerSet \/ c = "-"
RECURSIVE TagEnd(_, _)
TagEnd(s, i) == IF i <= Len(s) /\ IsTagChar(s[i]) THEN TagEnd(s, i + 1) ELSE i
RECURSIVE FindTags(_, _)
FindTags(s, i) ==
    IF i + 2 > Len(s) THEN <<>>
    ELSE IF s[i] = "v" /\ s[i + 1] = "-" /\ IsTagChar(s[i + 2])
    THEN <<SubSeq(s, i, TagEnd(s, i + 2) - 1)>> \o FindTags(s, TagEnd(s, i + 2))
    ELSE FindTags(s, i + 1)

\* float(s) of a number printed with three decimals, in thousandths
DigitValue(c) == CHOOSE d \in 0..9 : DigitSeq[d + 1] = c
RECURSIVE DigitsValue(_, _, _)
DigitsValue(s, i, acc) ==
    IF i > Len(s) THEN acc
    ELSE IF s[i] = "." THEN DigitsValue(s, i + 1, acc)
    ELSE DigitsValue(s, i + 1, 10 * acc + DigitValue(s[i]))
float_of(s) ==
    IF s # <<>> /\ s[1] = "-"
    THEN -DigitsValue(s, 2, 0)
    ELSE DigitsValue(s, 1, 0)

\* MonitoredRAG.__init__
new_monitored(base_rag_system, analytics) ==
    [base_rag |-> base_rag_system, analytics |-> analytics,
     session_id |-> "session"]

\* MonitoredRAG.query_with_monitoring; sinks[k] tells whether the k-th call
\* of log_query fails
query_with_monitoring(self, user_query, store, completion, sinks) ==
    LET monitored(result) ==
            LET query_lower == lower(user_query)
                components == IF Contains(query_lower, <<"v", "-">>)
                              THEN FindTags(query_lower, 1) ELSE <<>>
                similarity_scores ==
                    [k \in 1..Len(result.sources) |->
                        float_of(result.sources[k].similarity)]
                query_log == [query |-> user_query, query_type |-> "general",
                              components |-> components,
                              num_results |-> Len(result.sources),
                              similarity_scores |-> similarity_scores,
                              session_id |-> Some(self.session_id)]
                error_log == [query |-> user_query, query_type |-> "error",
                              components |-> <<>>, num_results |-> 0,
                              similarity_scores |-> <<>>,
                              session_id |-> Some(self.session_id)]
                logged(first) ==
                    IF first.raised
                    THEN \* except Exception: log the error, then raise e
                         [self |-> [self EXCEPT !.analytics =
                                       log_query(first.self, error_log,
                                                 sinks[2]).self],
                          ret |-> Raise]
                    ELSE [self |-> [self EXCEPT !.analytics = first.self],
                          ret |-> Return(
                              [query |-> result.query,
                               response |-> result.response,
                               sources |-> result.sources,
                               monitoring |->
                                  [similarity_scores |-> similarity_scores,
                                   session_id |-> self.session_id]])]
            IN  logged(log_query(self.analytics, query_log, sinks[1]))
    IN  monitored(rag_query(self.base_rag, user_query, DefaultNResults, None,
                            store, completion).ret)

\* SuperchargedVuetifyRAG.__init__
new_supercharged(openai_client) ==
    [base_rag |-> new_rag(openai_client),
     analytics |-> new_analytics,
     session_id |-> "session"]

\* SuperchargedVuetifyRAG.smart_query with use_intelligence
supercharged_smart_query(self, user_query, monitor, components, store, stores, completion, sinks) ==
    LET logged(result) ==
            IF monitor
            THEN LET first == log_query(self.analytics,
                                [query |-> user_query,
                                 query_type |-> result.analysis.type,
                                 components |-> result.analysis.components,
                                 num_results |-> Len(result.sources),
                                 similarity_scores |-> <<800, 700, 600>>,
                                 session_id |-> None],
                                sinks[1])
                 IN  IF first.raised
                     THEN [self |-> self, ret |-> Raise]
                     ELSE [self |-> [self EXCEPT !.analytics = first.self],
                           ret |-> Return(result)]
            ELSE [self |-> self, ret |-> Return(result)]
    IN  logged(smart_query(self.base_rag, user_query, DefaultNResults,
                           components, store, stores, completion).ret)

\* SuperchargedVuetifyRAG.smart_query without use_intelligence
supercharged_basic_query(self, user_query, monitor, store, completion, sinks) ==
    IF monitor
    THEN query_with_monitoring(self, user_query, store, completion, sinks)
    ELSE [self |-> self,
          ret |-> Return(rag_query(self.base_rag, user_query, DefaultNResults,
                                   None, store, completion).ret)]

\* the outcomes of the calls of log_query: the first fails or not, and a
\* second call happens only after a failure
SinkOutcomes == {<<FALSE>>, <<TRUE, FALSE>>, <<TRUE, TRUE>>}

InitMonitored ==
    /\ chunker = None
    /\ op = "init"
    /\ arg = None
    /\ ret = None
    /\ emitted = <<>>
    /\ rag \in {new_supercharged(None), new_supercharged(Some("client"))}
    /\ locals = None

QueryWithMonitoring ==
    /\ op = "init"
    /\ \E user_query \in RagQueries, sinks \in SinkOutcomes,
          completion \in Completions(rag.base_rag),
          store \in StoreAnswers(DefaultNResults, None) :
       \E r \in {query_with_monitoring(rag, user_query, store, completion,
                                       sinks)} :
          /\ arg' = [query |-> user_query, store |-> store,
                     completion |-> completion, sinks |-> sinks]
          /\ rag' = r.self
          /\ ret' = r.ret
    /\ op' = "query_with_monitoring"
    /\ UNCHANGED <<chunker, emitted, locals>>

SuperchargedSmartQuery ==
    /\ op = "init"
    /\ \E user_query \in RagQueries, monitor \in BOOLEAN,
          completion \in Completions(rag.base_rag) :
       \E components \in extract_components(user_query) :
       \E store \in StoreAnswers(DefaultNResults,
                      IF components # <<>> THEN Some(components[1]) ELSE None) :
       \E stores \in (IF components # <<>> /\ Len(store.hits) < DefaultNResults
                      THEN StageAnswers(components, 1) ELSE {<<>>}),
          sinks \in (IF monitor THEN {<<FALSE>>, <<TRUE>>} ELSE {<<>>}) :
       \E r \in {supercharged_smart_query(rag, user_query, monitor, components,
                                          store, stores, completion, sinks)} :
          /\ arg' = [query |-> user_query, use_intelligence |-> TRUE,
                     monitor |-> monitor, store |-> store, stores |-> stores,
                     completion |-> completion, sinks |-> sinks]
          /\ rag' = r.self
          /\ ret' = r.ret
    /\ op' = "smart_query"
    /\ UNCHANGED <<chunker, emitted, locals>>

SuperchargedBasicQuery ==
    /\ op = "init"
    /\ \E user_query \in RagQueries, monitor \in BOOLEAN,
          completion \in Completions(rag.base_rag),
          store \in StoreAnswers(DefaultNResults, None) :
       \E sinks \in (IF monitor THEN SinkOutcomes ELSE {<<>>}) :
       \E r \in {supercharged_basic_query(rag, user_query, monitor, store,
                                          completion, sinks)} :
          /\ arg' = [query |-> user_query, use_intelligence |-> FALSE,
                     monitor |-> monitor, store |-> store, stores |-> <<>>,
                     completion |-> completion, sinks |-> sinks]
          /\ rag' = r.self
          /\ ret' = r.ret
    /\ op' = "smart_query"
    /\ UNCHANGED <<chunker, emitted, locals>>

NextMonitored ==
    QueryWithMonitoring \/ SuperchargedSmartQuery \/ SuperchargedBasicQuery

SpecMonitored == InitMonitored /\ [][NextMonitored]_vars

\* C19: a failure of log_query does not keep query_with_monitoring or
\* SuperchargedVuetifyRAG.smart_query from returning the result of a query
\* that succeeded
LogFailureKeepsResult ==
    (op \in {"query_with_monitoring", "smart_query"}
       /\ arg.sinks # <<>> /\ arg.sinks[1]) =>
        ~ret.raised


----------------------------------------------------------------------------
(* The order of the chunks of one chunk_documentation call *)

\* the places of a document where chunks come from, in document order: for
\* each section its overview (subsection 0) and then each of its subsections
RECURSIVE SubsectionSlots(_, _, _)
SubsectionSlots(section, subsections, j) ==
    IF j > Len(subsections) THEN <<>>
    ELSE <<[component |-> section.component, overview |-> FALSE,
            title |-> subsections[j].title,
            blocks |-> CodeBlockMatches(subsections[j].content),
            content |-> subsections[j].content]>>
         \o SubsectionSlots(section, subsections, j + 1)

RECURSIVE SectionSlots(_, _)
SectionSlots(sections, i) ==
    IF i > Len(sections) THEN <<>>
    ELSE <<[component |-> sections[i].component, overview |-> TRUE,
            title |-> <<>>, blocks |-> <<>>, content |-> <<>>]>>
         \o SubsectionSlots(sections[i],
                            extract_subsections(sections[i].content), 1)
         \o SectionSlots(sections, i + 1)

\* the non-decreasing sequences of length n over lo..m
RECURSIVE Monotone(_, _, _)
Monotone(n, lo, m) ==
    IF n = 0 THEN {<<>>}
    ELSE UNION {{<<v>> \o rest : rest \in Monotone(n - 1, v, m)} : v \in lo..m}

endswith(s, p) == StartsAt(s, p, Len(s) - Len(p) + 1)

\* chunk is the j-th chunk that comes from slot
ComesFrom(chunk, slot, j) ==
    /\ chunk.metadata.component = slot.component
    /\ IF slot.overview
       THEN /\ chunk.metadata.subsection = None
            /\ j = 1
       ELSE /\ chunk.metadata.subsection = Some(slot.title)
            /\ IF "chunk_index" \in DOMAIN chunk.metadata
               THEN chunk.metadata.chunk_index = j - 1
               ELSE /\ j <= Len(slot.blocks)
                    /\ endswith(chunk.content,
                                strip(Slice(slot.content, slot.blocks[j].gs,
                                            slot.blocks[j].ge)))

\* C20: the chunks of one chunk_documentation call are in document order:
\* section after section; within a section the overview chunk first, at most
\* one, then the chunks of its subsections in their order; within a
\* subsection the text chunks with chunk_index 0, 1, 2, ... or the code
\* chunks in the order of their blocks; and the overview chunks are exactly
\* the chunks whose metadata.subsection is null
EmissionFollowsDocument ==
    op = "chunk_documentation" =>
        /\ \A k \in 1..Len(ret) :
              (ret[k].metadata.subsection = None)
                 <=> (ret[k].metadata.section_type = "overview")
        /\ \E sections \in {extract_component_sections(arg)} :
           \E slots \in {SectionSlots(sections, 1)} :
           \E h \in Monotone(Len(ret), 1, Len(slots)) :
              \A k \in 1..Len(ret) :
                 ComesFrom(ret[k], slots[h[k]],
                           Cardinality({i \in 1..k : h[i] = h[k]}))

\* a run that emitted an overview chunk, two code chunks of one subsection
\* and two text chunks of another
OverviewCodeAndTextEmitted ==
    /\ op = "chunk_documentation"
    /\ ret # <<>>
    /\ ret[1].metadata.subsection = None
    /\ \E i, j \in 1..Len(ret) :
          /\ i < j
          /\ ret[i].metadata.section_type = "code_example"
          /\ ret[j].metadata.section_type = "code_example"
          /\ ret[i].metadata.subsection = ret[j].metadata.subsection
    /\ \E k \in 1..Len(ret) :
          /\ "chunk_index" \in DOMAIN ret[k].metadata
          /\ ret[k].metadata.chunk_index = 1


----------------------------------------------------------------------------
(* SpecStages: one call of EnhancedVuetifyRAG.smart_query, stage by stage.
   locals holds the local variables of the call, the stage it is at (pc) and
   the trace of the stages it went through. *)

\* the test of line 269 without the count of the stage 1 results
fallback_needed_for_components(analysis, enhanced_results, n_results) ==
    analysis.components # <<>>

\* the test of line 269
fallback_needed(analysis, enhanced_results, n_results) ==
    analysis.components # <<>> /\ Len(enhanced_results) < n_results

StageQueries == RagQueries \cup {S_v_btn \o <<" ">> \o S_v_card}
StageNResults == {1, 2, DefaultNResults}

InitStages ==
    /\ chunker = None
    /\ op = "init"
    /\ arg = None
    /\ ret = None
    /\ emitted = <<>>
    /\ rag \in {new_rag(None), new_rag(Some("client"))}
    /\ locals = None

\* lines 244-257: the call, analyze_query and all_results = []
SmartQueryCall ==
    /\ op = "init"
    /\ \E user_query \in StageQueries, n_results \in StageNResults :
       \E components \in extract_components(user_query) :
          /\ arg' = [query |-> user_query, n_results |-> n_results]
          /\ locals' = [pc |-> "PrimarySearch",
                        analysis |-> analyze_query(user_query, components),
                        enhanced_results |-> <<>>,
                        all_results |-> <<>>,
                        final_results |-> <<>>,
                        k |-> 1,
                        trace |-> <<>>]
    /\ op' = "smart_query"
    /\ UNCHANGED <<chunker, ret, emitted, rag>>

\* lines 259-265: stage 1
PrimarySearch ==
    /\ op = "smart_query"
    /\ locals.pc = "PrimarySearch"
    /\ \E store \in StoreAnswers(arg.n_results,
                                 locals.analysis.suggested_filters.component) :
       \E enhanced_results \in
             {search(rag, locals.analysis.enhanced_query, arg.n_results,
                     locals.analysis.suggested_filters.component, store)} :
          locals' = [locals EXCEPT
             !.enhanced_results = enhanced_results,
             !.all_results = @ \o enhanced_results,
             !.trace = Append(@,
                 [stage |-> "PrimarySearch",
                  query |-> locals.analysis.enhanced_query,
                  n_results |-> arg.n_results,
                  component_filter |-> locals.analysis.suggested_filters.component,
                  store |-> store]),
             !.pc = IF fallback_needed(locals.analysis, enhanced_results,
                                       arg.n_results)
                    THEN "ComponentFallbackSearch" ELSE "Deduplicate"]
    /\ UNCHANGED <<chunker, op, arg, ret, emitted, rag>>

\* lines 270-277: one turn of the loop of stage 2
ComponentFallbackSearch ==
    /\ op = "smart_query"
    /\ locals.pc = "ComponentFallbackSearch"
    /\ \E store \in StoreAnswers(ComponentSearchResults,
                                 Some(locals.analysis.components[locals.k])) :
          locals' = [locals EXCEPT
             !.all_results = @ \o search(rag, arg.query, ComponentSearchResults,
                                         Some(locals.analysis.components[locals.k]),
                                         store),
             !.trace = Append(@,
                 [stage |-> "ComponentFallbackSearch",
                  query |-> arg.query,
                  n_results |-> ComponentSearchResults,
                  component_filter |-> Some(locals.analysis.components[locals.k]),
                  store |-> store]),
             !.k = @ + 1,
             !.pc = IF locals.k = Len(locals.analysis.components)
                    THEN "Deduplicate" ELSE "ComponentFallbackSearch"]
    /\ UNCHANGED <<chunker, op, arg, ret, emitted, rag>>

\* lines 279-288: stage 3 does nothing; _deduplicate_results sorts all_results
\* in place, and the unique results are cut to n_results
Deduplicate ==
    /\ op = "smart_query"
    /\ locals.pc = "Deduplicate"
    /\ locals' = [locals EXCEPT
          !.all_results = sort_by_similarity(@),
          !.final_results = first_n(deduplicate_results(locals.all_results),
                                    arg.n_results),
          !.trace = Append(@, [stage |-> "Deduplicate", query |-> <<>>,
                               n_results |-> 0, component_filter |-> None,
                               store |-> StoreRaised]),
          !.pc = "Respond"]
    /\ UNCHANGED <<chunker, op, arg, ret, emitted, rag>>

\* lines 290-314: the response and the returned dictionary
Respond ==
    /\ op = "smart_query"
    /\ locals.pc = "Respond"
    /\ \E completion \in Completions(rag) :
       \E g \in {generate_contextual_response(rag, arg.query,
                     locals.final_results, locals.analysis, completion)} :
          /\ ret' = [completion |-> completion,
                     value |->
                       [query |-> arg.query,
                        analysis |->
                           [type |-> locals.analysis.query_type,
                            components |-> locals.analysis.components,
                            keywords |-> locals.analysis.keywords,
                            confidence |-> locals.analysis.intent_confidence],
                        response |-> g.ret,
                        sources |-> sources_of(locals.final_results),
                        search_strategy |-> "multi_stage_intelligent"]]
          /\ locals' = [locals EXCEPT
                !.trace = Append(@, [stage |-> "Respond", query |-> <<>>,
                                     n_results |-> 0, component_filter |-> None,
                                     store |-> StoreRaised]),
                !.pc = "Done"]
    /\ UNCHANGED <<chunker, op, arg, emitted, rag>>

NextStages ==
    SmartQueryCall \/ PrimarySearch \/ ComponentFallbackSearch \/ Deduplicate
    \/ Respond

SpecStages == InitStages /\ [][NextStages]_vars


\* the searches of a trace issued in stage 2, and the results of an entry
FallbackSearches(trace) ==
    SelectSeq(trace, LAMBDA e : e.stage = "ComponentFallbackSearch")
ResultsOf(e) == search(rag, e.query, e.n_results, e.component_filter, e.store)
RECURSIVE ResultsUpTo(_, _)
ResultsUpTo(trace, i) ==
    IF i = 0 THEN <<>>
    ELSE ResultsUpTo(trace, i - 1)
         \o (IF trace[i].stage \in {"PrimarySearch", "ComponentFallbackSearch"}
             THEN ResultsOf(trace[i]) ELSE <<>>)
StageRank(stage) ==
    CASE stage = "PrimarySearch" -> 1
      [] stage = "ComponentFallbackSearch" -> 2
      [] stage = "Deduplicate" -> 3
      [] stage = "Respond" -> 4

\* C21: a call of smart_query issues exactly one primary search, first, with
\* the enhanced query and the suggested component filter; it issues fallback
\* searches exactly when a component was detected and the primary search
\* returned fewer than n_results results, one per detected component in
\* order, each with the original query and that component as filter; it
\* deduplicates once, after all searches and over all their results, and it
\* responds last
StagesInOrder ==
    op = "smart_query" =>
        LET t == locals.trace
            a == locals.analysis
            F == FallbackSearches(t)
            searched == locals.pc \in {"Deduplicate", "Respond", "Done"}
        IN  /\ (locals.pc = "PrimarySearch") <=> (t = <<>>)
            /\ \A i \in 1..Len(t) : (t[i].stage = "PrimarySearch") <=> (i = 1)
            /\ \A i, j \in 1..Len(t) :
                  i < j =>
                     /\ StageRank(t[i].stage) <= StageRank(t[j].stage)
                     /\ StageRank(t[i].stage) >= 3 => t[i].stage # t[j].stage
            /\ t # <<>> =>
                  /\ t[1].query = a.enhanced_query
                  /\ t[1].component_filter = a.suggested_filters.component
                  /\ t[1].n_results = arg.n_results
                  /\ Len(F) <= Len(a.components)
                  /\ \A k \in 1..Len(F) :
                        /\ F[k].query = arg.query
                        /\ F[k].component_filter = Some(a.components[k])
                  /\ searched =>
                        Len(F) = IF a.components # <<>>
                                    /\ Len(ResultsOf(t[1])) < arg.n_results
                                 THEN Len(a.components) ELSE 0
            /\ \A i \in 1..Len(t) :
                  t[i].stage = "Deduplicate" =>
                     /\ i = 1 + Len(F)+ 1
                     /\ locals.final_results =
                           first_n(deduplicate_results(ResultsUpTo(t, i)),
                                   arg.n_results)
            /\ (locals.pc = "Done") =>
                  /\ t[Len(t)].stage = "Respond"
                  /\ t[Len(t) - 1].stage = "Deduplicate"
                  /\ ret.value =
                        smart_query(rag, arg.query, arg.n_results, a.components,
                                    t[1].store,
                                    [k \in 1..Len(F) |-> F[k].store],
                                    ret.completion).ret

\* a finished call that detected two components, issued a fallback search
\* for each, and whose enhanced query is not the original one
TwoFallbackSearchesIssued ==
    /\ op = "smart_query"
    /\ locals.pc = "Done"
    /\ Len(locals.analysis.components) = 2
    /\ Len(FallbackSearches(locals.trace)) = 2
    /\ locals.analysis.enhanced_query # arg.query


----------------------------------------------------------------------------
(* SpecIntent: _classify_query_type on queries made of a few words *)

S_with == <<"w","i","t","h">>
S_size == <<"s","i","z","e">>

\* words that hit the keywords of api_reference, code_example (with a
\* capital), integration and styling, and one that hits none
IntentWords == {S_props, S_Example, S_with, S_color, S_size, S_button}
MaxIntentWords == 3
IntentQueries == Phrases(IntentWords, MaxIntentWords)

InitIntent ==
    /\ chunker = None
    /\ op = "init"
    /\ arg \in IntentQueries
    /\ ret = None
    /\ emitted = <<>>
    /\ rag = None
    /\ locals = None

ClassifyQueryType ==
    /\ op = "init"
    /\ op' = "classify_query_type"
    /\ ret' = classify_query_type(arg)
    /\ UNCHANGED <<chunker, arg, emitted, rag, locals>>

NextIntent == ClassifyQueryType

SpecIntent == InitIntent /\ [][NextIntent]_vars

\* the number of keywords of the i-th category that occur in the lower-cased
\* query, and the number of its keywords
IntentHits(query, i) == Cardinality(MatchedIntentKeywords(query, i))
IntentSize(i) == Len(IntentKeywords[i].keywords)

\* C22: with the score of a category being its hits divided by the length of
\* its keyword list, _classify_query_type returns the first category of
\* highest score, with that score as confidence, exactly when that score is
\* above 0.1, and component_usage with confidence 0.5 otherwise; there are 8
\* categories and the confidence lies in [0,1]
IntentIsFirstHighestScore ==
    op = "classify_query_type" =>
        LET n == Len(IntentKeywords)
            conf == ret.confidence
        IN  /\ n = 8
            /\ \A i \in 1..n : \A k, l \in 1..IntentSize(i) :
                  k # l => IntentKeywords[i].keywords[k] # IntentKeywords[i].keywords[l]
            /\ conf.num >= 0 /\ conf.den > 0 /\ conf.num <= conf.den
            /\ IF \E i \in 1..n : 10 * IntentHits(arg, i) > IntentSize(i)
               THEN \E b \in 1..n :
                       /\ ret.query_type = IntentKeywords[b].query_type
                       /\ conf = Ratio(IntentHits(arg, b), IntentSize(b))
                       /\ \A j \in 1..n :
                             IntentHits(arg, j) * IntentSize(b)
                                <= IntentHits(arg, b) * IntentSize(j)
                       /\ \A j \in 1..(b - 1) :
                             IntentHits(arg, j) * IntentSize(b)
                                < IntentHits(arg, b) * IntentSize(j)
               ELSE /\ ret.query_type = "component_usage"
                    /\ conf = Ratio(1, 2)

\* a query on which two categories share the highest score, above 0.1, and
\* the first of them is returned
TiedIntentsFirstWins ==
    /\ op = "classify_query_type"
    /\ \E i, j \in 1..Len(IntentKeywords) :
          /\ i < j
          /\ IntentHits(arg, i) > 0
          /\ IntentHits(arg, i) * IntentSize(j) = IntentHits(arg, j) * IntentSize(i)
          /\ ret.query_type = IntentKeywords[i].query_type
          /\ ret.confidence = Ratio(IntentHits(arg, i), IntentSize(i))


----------------------------------------------------------------------------
(* Suggested filters *)

\* the component of the match of either pattern that starts first in query
FirstAppearing(query) ==
    LET ms == FindAll(VTokenMatchAt, query, 1) \o FindAll(CamelMatchAt, query, 1)
        first == CHOOSE i \in 1..Len(ms) :
                     \A j \in 1..Len(ms) : ms[i].start <= ms[j].start
    IN  normalize_component(Slice(query, ms[first].gs, ms[first].ge))

\* C23: the component filter is present exactly when a component was
\* detected, and is then the component that appears first in the query; the
\* content_type filter is api_reference, code_example, usage_guide or
\* documentation for the intents api_reference, code_example,
\* component_usage and styling, and absent for the other intents
SuggestedFiltersFollowQuery ==
    op = "analyze_query" =>
        /\ (ret.suggested_filters.component # None) <=> (ret.components # <<>>)
        /\ ret.components # <<>> =>
              ret.suggested_filters.component = Some(FirstAppearing(arg))
        /\ ret.suggested_filters.content_type =
              CASE ret.query_type = "api_reference" -> Some("api_reference")
                [] ret.query_type = "code_example" -> Some("code_example")
                [] ret.query_type = "component_usage" -> Some("usage_guide")
                [] ret.query_type = "styling" -> Some("documentation")
                [] OTHER -> None


----------------------------------------------------------------------------
(* SpecBody: the body of one component section through _extract_subsections
   and _create_overview_chunk *)

S_CardHeading == <<"#","#"," ","C","a","r","d",NL>>

BodyFragments ==
    {<<"#","#","#"," ","A",NL>>, <<"#","#","#","#","#"," ","B">>, <<"#","#","#","#","#","#"," ","C",NL>>,
     <<"x",NL>>, <<NL>>, Fence \o <<NL>>, <<" ">>, <<"<">>,
     <<"#", "#", "#", NL>>}
MaxBodyFragments == 4

\* the sections _extract_component_sections cuts from a document made of one
\* component heading and a body
LongLine(n) == [i \in 1..n |-> "a"]

\* bodies whose description reaches the 400 characters: on the third line,
\* on the first line, and exactly 400 characters on three lines
LongBodies ==
    {LongLine(134) \o <<NL>> \o LongLine(134) \o <<NL>> \o LongLine(134)
        \o <<NL, "x", NL, NL, "y">>,
     LongLine(402) \o <<NL, "x">>,
     LongLine(133) \o <<NL>> \o LongLine(133) \o <<NL>> \o LongLine(132)
        \o <<NL, "x", NL, "y">>}

BodySections ==
    {extract_component_sections(S_CardHeading \o b)[1] :
        b \in Concats(BodyFragments, MaxBodyFragments) \cup LongBodies}

InitBody ==
    /\ chunker = new_chunker(1200, 150)
    /\ op = "init"
    /\ arg \in BodySections
    /\ ret = None
    /\ emitted = <<>>
    /\ rag = None
    /\ locals = None

ExtractSubsections ==
    /\ op = "init"
    /\ op' = "extract_subsections"
    /\ ret' = extract_subsections(arg.content)
    /\ UNCHANGED <<chunker, arg, emitted, rag, locals>>

CreateOverviewChunk ==
    /\ op = "init"
    /\ op' = "create_overview_chunk"
    /\ LET r == create_overview_chunk(chunker, arg, extract_subsections(arg.content))
       IN  /\ chunker' = r.self
           /\ ret' = r.ret
    /\ UNCHANGED <<arg, emitted, rag, locals>>

NextBody ==
    \/ ExtractSubsections
    \/ CreateOverviewChunk

SpecBody == InitBody /\ [][NextBody]_vars


\* a line that is a markdown heading of level 3 to 5: three to five '#',
\* white space, a title
IsSubsectionHeading(line) ==
    LET h == HashRun(line, 1)
    IN  /\ h >= 3 /\ h <= 5 /\ h < Len(line)
        /\ IsSpace(line[h + 1])
        /\ strip(Slice(line, h + 1, Len(line))) # <<>>

\* the first subsection heading among lines[k..], Len(lines) + 1 if none
RECURSIVE NextHeading(_, _)
NextHeading(lines, k) ==
    IF k > Len(lines) \/ IsSubsectionHeading(lines[k]) THEN k
    ELSE NextHeading(lines, k + 1)

\* for every heading line from lines[k] on, its title and the trimmed text
\* between it and the next heading line (or the end of the body)
RECURSIVE BetweenHeadings(_, _)
BetweenHeadings(lines, k) ==
    LET h == NextHeading(lines, k)
    IN  IF h > Len(lines) THEN <<>>
        ELSE LET n == NextHeading(lines, h + 1)
             IN  <<[title |-> strip(Slice(lines[h], HashRun(lines[h], 1) + 1,
                                          Len(lines[h]))),
                    content |-> strip(join(<<NL>>, Slice(lines, h + 1, n - 1)))]>>
                 \o BetweenHeadings(lines, n)

\* C24: the body is split at the headings of level 3 to 5 into {title,
\* content} pairs in document order: the returned subsections are, for each
\* heading line whose following text is not blank, the title of the heading
\* and the trimmed text up to the next heading line or the end of the body;
\* text before the first heading is in no subsection.
SubsectionsSplitAtHeadingLines ==
    op = "extract_subsections" =>
        ret = SelectSeq(BetweenHeadings(split_lines(arg.content), 1),
                        LAMBDA s : s.content # <<>>)


\* C25: an overview chunk is produced if and only if the body has a
\* describable line (non-empty after trimming, starting with none of '#',
\* '<', triple backtick); its text is the heading line of the component
\* followed by the description, the trimmed lines of the first contiguous run
\* of describable lines joined by spaces, the run ending before the first
\* non-describable line or with the line at which the joined text first
\* exceeds 400 characters.
DescriptionIsFirstRun ==
    op = "create_overview_chunk" =>
        LET raw == split_lines(arg.content)
            lines == [i \in 1..Len(raw) |-> strip(raw[i])]
            IsDescribable(i) ==
                /\ lines[i] # <<>>
                /\ lines[i][1] \notin {"#", "<"}
                /\ ~startswith(lines[i], Fence)
            D == {i \in 1..Len(lines) : IsDescribable(i)}
            Joined(i, k) == join(<<" ">>, SubSeq(lines, i, k))
            IsRun(i, k) ==
                /\ \A j \in 1..(i - 1) : j \notin D
                /\ \A j \in i..k : j \in D
                /\ \A j \in i..(k - 1) : Len(Joined(i, j)) <= 400
                /\ k = Len(lines) \/ (k + 1) \notin D \/ Len(Joined(i, k)) > 400
        IN  IF D = {} THEN ret = None
            ELSE /\ ret # None
                 /\ \E i \in D, k \in D :
                     /\ i <= k
                     /\ IsRun(i, k)
                     /\ LET text == <<"#", " ">> \o arg.component \o <<NL, NL>>
                                        \o Joined(i, k)
                            whole == ret[1].content
                        IN  /\ startswith(whole, text)
                            /\ \/ whole = text
                               \/ startswith(Slice(whole, Len(text) + 1, Len(whole)),
                                             S_available)

\* an overview chunk whose description stopped at the line that took it over
\* 400 characters, with a describable line left out after it
DescriptionCutAtLimit ==
    /\ op = "create_overview_chunk"
    /\ ret # None
    /\ arg.content \in LongBodies
    /\ ret[1].content_length > 400
    /\ ~Contains(ret[1].content, <<"x">>)


\* the titles of the subsection headings of a body, in document order: all of
\* them, or only those followed by text that is not blank
HeadingTitles(content, all) ==
    LET parts == SplitGroup(content, SubsectionMatches(content), 1)
        kept == SelectSeq([i \in 1..(Len(parts) \div 2) |-> 2 * i],
                          LAMBDA k : all \/ strip(parts[k + 1]) # <<>>)
    IN  [i \in 1..Len(kept) |-> strip(parts[kept[i]])]

\* the 'Available sections' line of the given titles
AvailableLine(titles) == S_available \o join(<<",", " ">>, titles)

\* C26 (as stated): when the section has subsection headings its overview
\* chunk ends with an 'Available sections' line listing the titles of all of
\* them in document order, those with empty content included; without
\* subsection headings there is no such line.
OverviewListsAllHeadings ==
    (op = "create_overview_chunk" /\ ret # None) =>
        LET titles == HeadingTitles(arg.content, TRUE)
        IN  IF titles # <<>>
            THEN endswith(ret[1].content, AvailableLine(titles))
            ELSE ~Contains(ret[1].content, S_available)

\* C26 (amended): the overview chunk ends with an 'Available sections' line
\* exactly when some subsection heading of the section is followed by text
\* that is not blank; the line lists the titles of those subsections in
\* document order, and a heading with empty content is not listed.
OverviewListsRetainedSubsections ==
    (op = "create_overview_chunk" /\ ret # None) =>
        LET titles == HeadingTitles(arg.content, FALSE)
        IN  IF titles # <<>>
            THEN endswith(ret[1].content, AvailableLine(titles))
            ELSE ~Contains(ret[1].content, S_available)

\* an overview chunk of a section with a heading of empty content and a
\* heading with content: the line is there and lists fewer titles than the
\* section has headings
EmptySubsectionNotListed ==
    /\ op = "create_overview_chunk"
    /\ ret # None
    /\ HeadingTitles(arg.content, FALSE) # <<>>
    /\ Len(HeadingTitles(arg.content, FALSE)) < Len(HeadingTitles(arg.content, TRUE))
    /\ endswith(ret[1].content, AvailableLine(HeadingTitles(arg.content, FALSE)))


\* pieces[k..] are consecutive non-empty runs of sentences[i..] that use every
\* sentence once and in order, a run being its sentences joined by one space
\* and trimmed
RECURSIVE IsRunsOf(_, _, _, _)
IsRunsOf(sentences, i, pieces, k) ==
    IF k > Len(pieces) THEN i > Len(sentences)
    ELSE \E j \in i..Len(sentences) :
            /\ pieces[k] = strip(join(<<" ">>, SubSeq(sentences, i, j)))
            /\ IsRunsOf(sentences, j + 1, pieces, k + 1)

\* the texts, without the heading line, of the chunks made of a subsection
PiecesOf(chunks, component, title) ==
    LET of == SelectSeq(chunks, LAMBDA c :
                  /\ c.metadata.component = component
                  /\ c.metadata.subsection = Some(title))
        heading == SubsectionHeading(component, title)
    IN  [k \in 1..Len(of) |-> Slice(of[k].content, Len(heading) + 1,
                                     Len(of[k].content))]

\* the subsections of prose longer than max_chunk_size of a document, each
\* with the component of its section
LongProse(doc, max) ==
    LET sections == extract_component_sections(doc)
        Subs(i) == extract_subsections(sections[i].content)
    IN  UNION {{[component |-> sections[i].component, subsection |-> Subs(i)[j]] :
                    j \in {n \in 1..Len(Subs(i)) :
                              /\ ~has_code_blocks(Subs(i)[n].content)
                              /\ Len(Subs(i)[n].content) > max}} :
               i \in 1..Len(sections)}

\* the chunks of a document split every long prose into runs of its sentences
ProseSplitIntoRuns(doc, chunks, max) ==
    \A p \in LongProse(doc, max) :
        IsRunsOf(split_sentences(p.subsection.content), 1,
                 PiecesOf(chunks, p.component, p.subsection.title), 1)

\* C27: the overlap value has no effect: a chunk_documentation call returns
\* the chunks it returns on the same instance with any other overlap, and the
\* pieces of a prose longer than max_chunk_size are consecutive runs of its
\* sentences, every sentence in exactly one piece and in the original order.
OverlapHasNoEffect ==
    [][op' = "chunk_documentation" =>
        /\ \A o \in Overlaps :
              chunk_documentation([chunker EXCEPT !.overlap = o], arg').ret = ret'
        /\ ProseSplitIntoRuns(arg', ret', chunker.max_chunk_size)]_vars

\* an instance with a positive overlap has split a prose longer than
\* max_chunk_size into several chunks
LongProseSplitWithOverlap ==
    /\ op = "chunk_documentation"
    /\ chunker.overlap > 0
    /\ \E p \in LongProse(arg, chunker.max_chunk_size) :
          Len(PiecesOf(ret, p.component, p.subsection.title)) >= 2


----------------------------------------------------------------------------
(* SpecNames: a component documented under a CamelCase heading, then asked
   for by the same word *)

S_Button == <<"B","u","t","t","o","n">>
S_v_data_table == <<"v","-","d","a","t","a","-","t","a","b","l","e">>
S_v_datatable == <<"v","-","d","a","t","a","t","a","b","l","e">>

Humps == {<<"D","a","t","a">>, <<"T","a","b","l","e">>, S_Button, <<"A","p","p">>}
MaxHumps == 3

\* the CamelCase words of one to MaxHumps humps
Names == Concats(Humps, MaxHumps) \ {<<>>}

\* a document with one component section under the heading name
NameDoc(name) == <<"#", "#", " ">> \o name \o <<NL>> \o <<"T","e","x","t",".",NL>>

InitNames ==
    /\ chunker = new_chunker(1200, 150)
    /\ op = "init"
    /\ arg \in Names
    /\ ret = None
    /\ emitted = <<>>
    /\ rag = None
    /\ locals = None

ChunkNameDoc ==
    /\ op = "init"
    /\ \E r \in {chunk_documentation(chunker, NameDoc(arg))} :
           /\ chunker' = r.self
           /\ ret' = r.ret
           /\ emitted' = emitted \o r.ret
    /\ op' = "chunk_documentation"
    /\ UNCHANGED <<arg, rag, locals>>

AnalyzeName ==
    /\ op = "chunk_documentation"
    /\ op' = "analyze_query"
    /\ \E components \in extract_components(arg) :
          ret' = analyze_query(arg, components)
    /\ UNCHANGED <<chunker, arg, emitted, rag, locals>>

NextNames ==
    \/ ChunkNameDoc
    \/ AnalyzeName

SpecNames == InitNames /\ [][NextNames]_vars

\* the number of capital letters of a word
HumpCount(name) == Cardinality({i \in 1..Len(name) : IsUpper(name[i])})

\* C28: the chunker and the analyzer normalise a CamelCase word differently
\* as soon as it has two humps: the component stored with the chunks of the
\* heading and the component filter the analyzer suggests for the same word
\* agree exactly on the words of one hump; DataTable is stored as v-datatable
\* and asked for as v-data-table, Button is v-button on both sides.
NormalisationDiffers ==
    op = "analyze_query" =>
        LET stored == emitted[1].metadata.component
            filter == ret.suggested_filters.component
        IN  /\ filter # None
            /\ (filter = Some(stored)) <=> (HumpCount(arg) = 1)
            /\ arg = S_DataTable =>
                  stored = S_v_datatable /\ filter = Some(S_v_data_table)
            /\ arg = S_Button =>
                  stored = S_v_button /\ filter = Some(S_v_button)

\* DataTable was documented, stored as v-datatable, and asked for
DataTableStoredAndAsked ==
    /\ op = "analyze_query"
    /\ arg = S_DataTable
    /\ \A k \in 1..Len(emitted) : emitted[k].metadata.component = S_v_datatable
    /\ emitted # <<>>
    /\ ret.components = <<S_v_data_table>>


\* C29: every subsection the Subsection Splitter returns produces at least
\* one chunk in _process_subsection, on the text path and on the code path,
\* also when its content has an opening fence that is never closed or only
\* prose followed by a fence with an empty body.
RetainedSubsectionChunked ==
    op = "process_subsection" => Len(ret) >= 1


\* the match m starts on a line inside the complete fenced block b
InsideBlock(m, b) == b.start < m.start /\ m.start < b.end

\* C30: heading recognition respects code fences: a line inside a complete
\* fenced code block of a section body that has the shape of a level 3 to 5
\* heading starts no subsection, so every returned subsection comes from a
\* heading outside all fenced blocks and no block is cut across subsections.
HeadingsRespectFences ==
    op = "extract_subsections" =>
        LET blocks == CodeBlockMatches(arg.content)
            ms == SubsectionMatches(arg.content)
            outside == {i \in 1..Len(ms) :
                           \A j \in 1..Len(blocks) : ~InsideBlock(ms[i], blocks[j])}
        IN  \A k \in 1..Len(ret) :
                \E i \in outside :
                    /\ ret[k].title = strip(Slice(arg.content, ms[i].gs, ms[i].ge))
                    /\ \A j \in 1..Len(blocks) :
                          blocks[j].start > ms[i].end =>
                              \/ Contains(ret[k].content, FencedBlocks(arg.content)[j])
                              \/ \E n \in outside : n > i /\ ms[n].start < blocks[j].start

====
